---- MODULE Spec2Model ----
(***************************************************************************)
(* Model of the BioRoute calculation engine                                *)
(* (backend/app/services/calculation_engine.py) and of the HTTP handlers   *)
(* that drive it (backend/main.py).                                        *)
(*                                                                         *)
(* Numbers are exact rationals [n, d] in lowest terms with d > 0: the      *)
(* Python code computes in IEEE doubles, whose rounding is below the       *)
(* resolution of this model.  StreamProperties objects live in a heap so   *)
(* that Python's reference semantics (two names for one object, in-place   *)
(* update) is part of the model.                                           *)
(***************************************************************************)
EXTENDS Integers, Sequences, FiniteSets, TLC

-----------------------------------------------------------------------------
(* Rational arithmetic *)

Abs(x) == IF x < 0 THEN -x ELSE x

RECURSIVE GCD(_, _)
GCD(a, b) == IF b = 0 THEN a ELSE GCD(b, a % b)

\* The rational n/d (d # 0) in lowest terms with a positive denominator.
R(n, d) ==
    LET g == GCD(Abs(n), Abs(d))
        s == IF d < 0 THEN -1 ELSE 1
    IN  [n |-> (s * n) \div g, d |-> (s * d) \div g]

RAdd(x, y) ==
    LET g == GCD(x.d, y.d)
    IN  R(x.n * (y.d \div g) + y.n * (x.d \div g), (x.d \div g) * y.d)

RNeg(x) == [n |-> -x.n, d |-> x.d]

RSub(x, y) == RAdd(x, RNeg(y))

RMul(x, y) ==
    LET g1 == GCD(Abs(x.n), y.d)
        g2 == GCD(Abs(y.n), x.d)
    IN  [n |-> (x.n \div g1) * (y.n \div g2), d |-> (x.d \div g2) * (y.d \div g1)]

RDiv(x, y) == RMul(x, R(y.d, y.n))

RLt(x, y) == x.n * y.d < y.n * x.d

RGt(x, y) == RLt(y, x)

RMin(x, y) == IF RLt(y, x) THEN y ELSE x

Pow10(k) == IF k = 0 THEN 1 ELSE IF k = 1 THEN 10 ELSE 100

\* Python's round(x): nearest integer, ties to the even one.
RoundInt(x) ==
    LET q == x.n \div x.d
        r == x.n - q * x.d
    IN  IF 2 * r < x.d THEN q
        ELSE IF 2 * r > x.d THEN q + 1
        ELSE IF q % 2 = 0 THEN q ELSE q + 1

\* Python's round(x, k) for k in 0..2.
Round(x, k) == R(RoundInt(RMul(x, R(Pow10(k), 1))), Pow10(k))

Zero == R(0, 1)
One == R(1, 1)
Hundred == R(100, 1)
Thousand == R(1000, 1)

-----------------------------------------------------------------------------
(* The technology catalog (backend/data/technologies.py).  Names are       *)
(* written without diacritics.                                             *)

TECH_DATABASE ==
     "bagasse" :> [id |-> "bagasse", category |-> "feedstock", name |-> "Bagaco de Cana",
        accepts |-> {}, outputs |-> {"solid_biomass"},
        parameters |-> <<[key |-> "quantity", default_value |-> R(100, 1)]>>,
        defaults |-> "lhv" :> R(75, 10) @@ "moisture" :> R(50, 1) @@ "vs" :> R(85, 1) @@ "density" :> R(150, 1)]
  @@ "straw" :> [id |-> "straw", category |-> "feedstock", name |-> "Palha de Cana",
        accepts |-> {}, outputs |-> {"solid_biomass"},
        parameters |-> <<[key |-> "quantity", default_value |-> R(150, 1)]>>,
        defaults |-> "lhv" :> R(125, 10) @@ "moisture" :> R(15, 1) @@ "vs" :> R(80, 1) @@ "density" :> R(100, 1)]
  @@ "vinasse" :> [id |-> "vinasse", category |-> "feedstock", name |-> "Vinhaca",
        accepts |-> {}, outputs |-> {"liquid_organic"},
        parameters |-> <<[key |-> "quantity", default_value |-> R(1000, 1)]>>,
        defaults |-> "cod" :> R(25, 1) @@ "bod" :> R(15, 1) @@ "ph" :> R(45, 10) @@ "temperature" :> R(80, 1)]
  @@ "filter_cake" :> [id |-> "filter_cake", category |-> "feedstock", name |-> "Torta de Filtro",
        accepts |-> {}, outputs |-> {"solid_biomass"},
        parameters |-> <<[key |-> "quantity", default_value |-> R(50, 1)]>>,
        defaults |-> "lhv" :> R(32, 10) @@ "moisture" :> R(75, 1) @@ "vs" :> R(70, 1) @@ "density" :> R(800, 1)]
  @@ "wash_water" :> [id |-> "wash_water", category |-> "feedstock", name |-> "Agua de Lavagem de Cana",
        accepts |-> {}, outputs |-> {"liquid_organic"},
        parameters |-> <<[key |-> "quantity", default_value |-> R(500, 1)]>>,
        defaults |-> "cod" :> R(5, 1) @@ "bod" :> R(3, 1) @@ "ph" :> R(65, 10)]
  @@ "thermal_hydrolysis" :> [id |-> "thermal_hydrolysis", category |-> "pretreatment", name |-> "Hidrolise Termica",
        accepts |-> {"solid_biomass"}, outputs |-> {"treated_solid"},
        parameters |-> <<[key |-> "temperature", default_value |-> R(170, 1)]>>,
        defaults |-> "biogas_increase" :> R(25, 1) @@ "energy_use" :> R(5, 10) @@ "retention_time" :> R(30, 1)]
  @@ "mechanical_prep" :> [id |-> "mechanical_prep", category |-> "pretreatment", name |-> "Preparo Mecanico",
        accepts |-> {"solid_biomass"}, outputs |-> {"treated_solid"},
        parameters |-> <<>>,
        defaults |-> "biogas_increase" :> R(15, 1) @@ "energy_use" :> R(3, 10) @@ "particle_size" :> R(2, 1)]
  @@ "alkaline_pretreat" :> [id |-> "alkaline_pretreat", category |-> "pretreatment", name |-> "Pre-tratamento Alcalino",
        accepts |-> {"solid_biomass"}, outputs |-> {"treated_solid"},
        parameters |-> <<[key |-> "naoh_dose", default_value |-> R(10, 1)]>>,
        defaults |-> "biogas_increase" :> R(20, 1) @@ "energy_use" :> R(1, 10) @@ "retention_time" :> R(24, 1)]
  @@ "cstr" :> [id |-> "cstr", category |-> "digester", name |-> "CSTR (Reator Continuo de Mistura Completa)",
        accepts |-> {"solid_biomass", "treated_solid", "liquid_organic"}, outputs |-> {"biogas", "digestate"},
        parameters |-> <<[key |-> "efficiency", default_value |-> R(70, 1)], [key |-> "hrt", default_value |-> R(25, 1)]>>,
        defaults |-> "efficiency" :> R(7, 10) @@ "hrt" :> R(25, 1) @@ "olr" :> R(3, 1) @@ "temperature" :> R(35, 1) @@ "ch4_content" :> R(6, 10)]
  @@ "uasb" :> [id |-> "uasb", category |-> "digester", name |-> "UASB (Reator Anaerobio de Manta de Lodo)",
        accepts |-> {"liquid_organic"}, outputs |-> {"biogas", "digestate"},
        parameters |-> <<[key |-> "efficiency", default_value |-> R(80, 1)], [key |-> "hrt", default_value |-> R(1, 1)]>>,
        defaults |-> "efficiency" :> R(8, 10) @@ "hrt" :> R(1, 1) @@ "olr" :> R(15, 1) @@ "temperature" :> R(35, 1) @@ "ch4_content" :> R(65, 100)]
  @@ "pfr" :> [id |-> "pfr", category |-> "digester", name |-> "PFR (Plug Flow Reactor)",
        accepts |-> {"solid_biomass", "treated_solid"}, outputs |-> {"biogas", "digestate"},
        parameters |-> <<[key |-> "efficiency", default_value |-> R(70, 1)]>>,
        defaults |-> "efficiency" :> R(7, 10) @@ "hrt" :> R(20, 1) @@ "olr" :> R(4, 1) @@ "temperature" :> R(38, 1) @@ "ch4_content" :> R(58, 100)]
  @@ "ic_reactor" :> [id |-> "ic_reactor", category |-> "digester", name |-> "IC Reactor (Reator de Circulacao Interna)",
        accepts |-> {"liquid_organic"}, outputs |-> {"biogas", "digestate"},
        parameters |-> <<[key |-> "efficiency", default_value |-> R(85, 1)]>>,
        defaults |-> "efficiency" :> R(85, 100) @@ "hrt" :> R(3, 10) @@ "olr" :> R(25, 1) @@ "temperature" :> R(35, 1) @@ "ch4_content" :> R(7, 10)]
  @@ "lagoon" :> [id |-> "lagoon", category |-> "digester", name |-> "Lagoa Coberta",
        accepts |-> {"liquid_organic"}, outputs |-> {"biogas", "digestate"},
        parameters |-> <<[key |-> "efficiency", default_value |-> R(55, 1)]>>,
        defaults |-> "efficiency" :> R(55, 100) @@ "hrt" :> R(45, 1) @@ "olr" :> R(1, 1) @@ "temperature" :> R(25, 1) @@ "ch4_content" :> R(55, 100)]
  @@ "psa" :> [id |-> "psa", category |-> "upgrading", name |-> "PSA (Pressure Swing Adsorption)",
        accepts |-> {"biogas"}, outputs |-> {"biomethane", "co2"},
        parameters |-> <<[key |-> "recovery", default_value |-> R(98, 1)]>>,
        defaults |-> "recovery" :> R(98, 100) @@ "energy_use" :> R(25, 100) @@ "ch4_purity" :> R(98, 100) @@ "capex" :> R(1200, 1)]
  @@ "membrane" :> [id |-> "membrane", category |-> "upgrading", name |-> "Membrana",
        accepts |-> {"biogas"}, outputs |-> {"biomethane", "co2"},
        parameters |-> <<[key |-> "recovery", default_value |-> R(96, 1)]>>,
        defaults |-> "recovery" :> R(96, 100) @@ "energy_use" :> R(2, 10) @@ "ch4_purity" :> R(97, 100) @@ "capex" :> R(1000, 1)]
  @@ "water_scrubbing" :> [id |-> "water_scrubbing", category |-> "upgrading", name |-> "Water Scrubbing",
        accepts |-> {"biogas"}, outputs |-> {"biomethane", "co2"},
        parameters |-> <<[key |-> "recovery", default_value |-> R(95, 1)]>>,
        defaults |-> "recovery" :> R(95, 100) @@ "energy_use" :> R(3, 10) @@ "ch4_purity" :> R(97, 100) @@ "capex" :> R(900, 1)]
  @@ "amine_scrubbing" :> [id |-> "amine_scrubbing", category |-> "upgrading", name |-> "Amine Scrubbing",
        accepts |-> {"biogas"}, outputs |-> {"biomethane", "co2"},
        parameters |-> <<[key |-> "recovery", default_value |-> R(99, 1)]>>,
        defaults |-> "recovery" :> R(99, 100) @@ "energy_use" :> R(15, 100) @@ "ch4_purity" :> R(995, 1000) @@ "capex" :> R(1500, 1)]
  @@ "cryogenic" :> [id |-> "cryogenic", category |-> "upgrading", name |-> "Criogenico",
        accepts |-> {"biogas"}, outputs |-> {"biomethane", "co2_liquid"},
        parameters |-> <<>>,
        defaults |-> "recovery" :> R(99, 100) @@ "energy_use" :> R(4, 10) @@ "ch4_purity" :> R(999, 1000) @@ "capex" :> R(2000, 1)]
  @@ "ice_cogen" :> [id |-> "ice_cogen", category |-> "enduse", name |-> "Motor Ciclo Otto (Cogeracao)",
        accepts |-> {"biogas", "biomethane"}, outputs |-> {"electricity", "heat"},
        parameters |-> <<[key |-> "elec_efficiency", default_value |-> R(40, 1)], [key |-> "therm_efficiency", default_value |-> R(45, 1)], [key |-> "elec_price", default_value |-> R(350, 1)]>>,
        defaults |-> "elec_eff" :> R(4, 10) @@ "therm_eff" :> R(45, 100) @@ "capex" :> R(1500, 1) @@ "opex" :> R(15, 1000)]
  @@ "gas_turbine" :> [id |-> "gas_turbine", category |-> "enduse", name |-> "Turbina a Gas",
        accepts |-> {"biomethane"}, outputs |-> {"electricity", "heat"},
        parameters |-> <<[key |-> "elec_efficiency", default_value |-> R(33, 1)]>>,
        defaults |-> "elec_eff" :> R(33, 100) @@ "therm_eff" :> R(48, 100) @@ "capex" :> R(2000, 1) @@ "min_capacity" :> R(5000, 1)]
  @@ "microturbine" :> [id |-> "microturbine", category |-> "enduse", name |-> "Microturbina",
        accepts |-> {"biogas", "biomethane"}, outputs |-> {"electricity", "heat"},
        parameters |-> <<>>,
        defaults |-> "elec_eff" :> R(28, 100) @@ "therm_eff" :> R(52, 100) @@ "capex" :> R(2500, 1) @@ "max_capacity" :> R(500, 1)]
  @@ "fuel_cell" :> [id |-> "fuel_cell", category |-> "enduse", name |-> "Celula a Combustivel",
        accepts |-> {"biomethane"}, outputs |-> {"electricity", "heat"},
        parameters |-> <<>>,
        defaults |-> "elec_eff" :> R(5, 10) @@ "therm_eff" :> R(35, 100) @@ "capex" :> R(4000, 1) @@ "lifetime" :> R(10, 1)]
  @@ "boiler" :> [id |-> "boiler", category |-> "enduse", name |-> "Caldeira",
        accepts |-> {"biogas", "biomethane"}, outputs |-> {"heat"},
        parameters |-> <<[key |-> "therm_efficiency", default_value |-> R(85, 1)]>>,
        defaults |-> "therm_eff" :> R(85, 100) @@ "capex" :> R(200, 1) @@ "steam_pressure" :> R(21, 1)]
  @@ "biomethane_gnv" :> [id |-> "biomethane_gnv", category |-> "enduse", name |-> "Biometano GNV",
        accepts |-> {"biomethane"}, outputs |-> {"revenue"},
        parameters |-> <<[key |-> "price", default_value |-> R(35, 10)]>>,
        defaults |-> "price" :> R(35, 10) @@ "compression_cost" :> R(3, 10) @@ "compression_energy" :> R(1, 10)]
  @@ "biomethane_grid" :> [id |-> "biomethane_grid", category |-> "enduse", name |-> "Injecao na Rede de Gas",
        accepts |-> {"biomethane"}, outputs |-> {"revenue"},
        parameters |-> <<[key |-> "price", default_value |-> R(28, 10)]>>,
        defaults |-> "price" :> R(28, 10) @@ "min_quality" :> R(96, 100) @@ "wobbe_index" :> R(52, 1)]
  @@ "flare" :> [id |-> "flare", category |-> "enduse", name |-> "Flare (Queima)",
        accepts |-> {"biogas", "biomethane"}, outputs |-> {"emissions_reduction"},
        parameters |-> <<>>,
        defaults |-> "destruction_efficiency" :> R(99, 100) @@ "capex" :> R(50, 1) @@ "co2_reduction" :> R(21, 1)]
  @@ "digestate_liquid" :> [id |-> "digestate_liquid", category |-> "byproduct", name |-> "Digestato Liquido",
        accepts |-> {"digestate"}, outputs |-> {"biofertilizer"},
        parameters |-> <<>>,
        defaults |-> "n_content" :> R(25, 10) @@ "p_content" :> R(8, 10) @@ "k_content" :> R(3, 1) @@ "value" :> R(15, 100)]
  @@ "digestate_solid" :> [id |-> "digestate_solid", category |-> "byproduct", name |-> "Digestato Solido",
        accepts |-> {"digestate"}, outputs |-> {"soil_conditioner"},
        parameters |-> <<>>,
        defaults |-> "organic_matter" :> R(50, 1) @@ "moisture" :> R(60, 1) @@ "value" :> R(30, 1)]
  @@ "co2_capture" :> [id |-> "co2_capture", category |-> "byproduct", name |-> "CO2 Capturado",
        accepts |-> {"co2"}, outputs |-> {"co2_product"},
        parameters |-> <<>>,
        defaults |-> "purity" :> R(999, 10) @@ "value" :> R(200, 1) @@ "purification_cost" :> R(100, 1)]

\* A Python dict with no entries.
EmptyDict == [k \in {} |-> Zero]

\* dict.get(key, default)
Get(dict, key, default) == IF key \in DOMAIN dict THEN dict[key] ELSE default

-----------------------------------------------------------------------------
(* StreamProperties *)

FlowFields ==
    {"mass_flow", "volume_flow", "energy_content", "methane_content", "cod", "vs_content"}

\* StreamProperties(): the dataclass defaults.
StreamProperties ==
    [mass_flow |-> Zero, volume_flow |-> Zero, energy_content |-> Zero,
     methane_content |-> Zero, cod |-> Zero, vs_content |-> Zero,
     temperature |-> R(35, 1), pressure |-> One]

\* An addition that keeps the temperature and pressure of its left operand.
StreamAddKeepingSelf(self, other) ==
    [mass_flow |-> RAdd(self.mass_flow, other.mass_flow),
     volume_flow |-> RAdd(self.volume_flow, other.volume_flow),
     energy_content |-> RAdd(self.energy_content, other.energy_content),
     methane_content |-> RAdd(self.methane_content, other.methane_content),
     cod |-> RAdd(self.cod, other.cod),
     vs_content |-> RAdd(self.vs_content, other.vs_content),
     temperature |-> self.temperature,
     pressure |-> self.pressure]

\* An addition that adds temperatures and pressures like the other fields.
StreamAddEveryField(self, other) ==
    [mass_flow |-> RAdd(self.mass_flow, other.mass_flow),
     volume_flow |-> RAdd(self.volume_flow, other.volume_flow),
     energy_content |-> RAdd(self.energy_content, other.energy_content),
     methane_content |-> RAdd(self.methane_content, other.methane_content),
     cod |-> RAdd(self.cod, other.cod),
     vs_content |-> RAdd(self.vs_content, other.vs_content),
     temperature |-> RAdd(self.temperature, other.temperature),
     pressure |-> RAdd(self.pressure, other.pressure)]

\* StreamProperties.__add__
StreamAdd(self, other) ==
    [mass_flow |-> RAdd(self.mass_flow, other.mass_flow),
     volume_flow |-> RAdd(self.volume_flow, other.volume_flow),
     energy_content |-> RAdd(self.energy_content, other.energy_content),
     methane_content |-> RAdd(self.methane_content, other.methane_content),
     cod |-> RAdd(self.cod, other.cod),
     vs_content |-> RAdd(self.vs_content, other.vs_content),
     temperature |-> RDiv(RAdd(self.temperature, other.temperature), R(2, 1)),
     pressure |-> RMin(self.pressure, other.pressure)]

\* A reference to a StreamProperties object: addr > 0 is the address of an
\* object that the stream map holds, addr = 0 an object created during the
\* current call that nothing else refers to; val is the object's fields.
Fresh(val) == [addr |-> 0, val |-> val]

RECURSIVE FoldAdd(_, _)
FoldAdd(result, inputs) ==
    IF inputs = <<>> THEN result
    ELSE FoldAdd(StreamAdd(result, Head(inputs).val), Tail(inputs))

\* A fold that starts from a default stream and the second input.
SumInputsFromSecond(inputs) ==
    IF inputs = <<>> THEN Fresh(StreamProperties)
    ELSE IF Len(inputs) = 1 THEN inputs[1]
    ELSE Fresh(FoldAdd(StreamProperties, Tail(inputs)))

\* _sum_inputs: no input gives a new default object, one input gives that
\* very object (no copy), several give a new object.
SumInputs(inputs) ==
    IF inputs = <<>> THEN Fresh(StreamProperties)
    ELSE IF Len(inputs) = 1 THEN inputs[1]
    ELSE Fresh(FoldAdd(inputs[1].val, Tail(inputs)))

-----------------------------------------------------------------------------
(* The category rules.  Each takes the technology profile, the node's      *)
(* parameters and the references to the inbound stream objects, and        *)
(* returns [out |-> reference to the output stream, results |-> dict].     *)

\* A percentage taken as it comes.
AsGiven(x) == x

\* "if x > 1: x = x / 100"
AsFraction(x) == IF RGt(x, One) THEN RDiv(x, Hundred) ELSE x

CH4_LHV == R(358, 10)
CH4_KWH == R(997, 100)
MJ_PER_KWH == R(36, 10)
OPERATING_DAYS == R(330, 1)

\* A feedstock rule that knows only vinasse as a liquid.
OnlyVinasse(tech) == tech.id = "vinasse"

\* tech['id'] in ['vinasse', 'wash_water']
LiquidFeedstock(tech) == tech.id \in {"vinasse", "wash_water"}

_calc_feedstock(tech, params) ==
    LET quantity == Get(params, "quantity",
                        IF tech.parameters # <<>> THEN tech.parameters[1].default_value
                        ELSE Hundred)
        defaults == tech.defaults
    IN  IF LiquidFeedstock(tech)
        THEN LET cod == RMul(quantity, Get(defaults, "cod", R(25, 1)))
                 stream == [StreamProperties EXCEPT
                               !.volume_flow = quantity,
                               !.cod = cod,
                               !.vs_content = RMul(cod, R(7, 10))]
             IN  [out |-> Fresh(stream),
                  results |-> "input_quantity" :> quantity
                           @@ "input_unit" :> "m3/day"
                           @@ "cod_total" :> cod
                           @@ "vs_available" :> stream.vs_content]
        ELSE LET moisture == RDiv(Get(defaults, "moisture", R(50, 1)), Hundred)
                 vs_fraction == RDiv(Get(defaults, "vs", R(85, 1)), Hundred)
                 lhv == Get(defaults, "lhv", R(75, 10))
                 dry_mass == RMul(quantity, RSub(One, moisture))
                 vs_mass == RMul(RMul(dry_mass, vs_fraction), Thousand)
                 energy == RMul(RMul(RMul(quantity, Thousand), RSub(One, moisture)), lhv)
                 stream == [StreamProperties EXCEPT
                               !.mass_flow = RMul(quantity, Thousand),
                               !.vs_content = vs_mass,
                               !.energy_content = energy]
             IN  [out |-> Fresh(stream),
                  results |-> "input_quantity" :> quantity
                           @@ "input_unit" :> "t/day"
                           @@ "dry_mass" :> dry_mass
                           @@ "vs_available" :> vs_mass
                           @@ "energy_available_mj" :> energy]

\* output_stream is the object combined names, so the scaling of vs_content
\* is an update of that object and parasitic_energy reads the scaled value.
Pretreat(tech, params, combined) ==
    LET biogas_increase == RDiv(Get(tech.defaults, "biogas_increase", R(15, 1)), Hundred)
        energy_use == Get(tech.defaults, "energy_use", R(3, 10))
        updated == [combined.val EXCEPT
                       !.vs_content = RMul(@, RAdd(One, biogas_increase))]
        output_stream == [addr |-> combined.addr, val |-> updated]
        parasitic_energy ==
            IF tech.id = "thermal_hydrolysis" THEN RMul(updated.vs_content, energy_use)
            ELSE IF tech.id = "mechanical_prep"
                 THEN RMul(RDiv(updated.mass_flow, Thousand), energy_use)
                 ELSE Zero
    IN  [out |-> output_stream,
         results |-> "biogas_increase_percent" :> RMul(biogas_increase, Hundred)
                  @@ "parasitic_energy_kwh" :> parasitic_energy
                  @@ "effective_vs_output" :> updated.vs_content]

_calc_pretreatment(tech, params, inputs) == Pretreat(tech, params, SumInputs(inputs))

\* A test that takes the COD pathway only when the input holds no solids.
CodWithoutSolids(combined) ==
    RGt(combined.cod, Zero) /\ ~RGt(combined.vs_content, Zero)

\* "if combined.cod > 0": the liquid (COD-based) pathway
LiquidPathway(combined) == RGt(combined.cod, Zero)

Digest(tech, params, combined) ==
    LET efficiency == AsFraction(Get(params, "efficiency",
                                     Get(tech.defaults, "efficiency", R(70, 100))))
        ch4_content == Get(tech.defaults, "ch4_content", R(60, 100))
        liquid == LiquidPathway(combined)
        ch4_production ==
            IF liquid THEN RMul(RMul(combined.cod, R(35, 100)), efficiency)
            ELSE RMul(RMul(RMul(combined.vs_content, R(40, 100)), efficiency), ch4_content)
        biogas_production ==
            IF liquid THEN RDiv(ch4_production, ch4_content)
            ELSE RMul(RMul(combined.vs_content, R(40, 100)), efficiency)
        energy_output_mj == RMul(ch4_production, CH4_LHV)
        energy_output_kwh == RDiv(energy_output_mj, MJ_PER_KWH)
        stream == [StreamProperties EXCEPT
                      !.volume_flow = biogas_production,
                      !.methane_content = ch4_production,
                      !.energy_content = energy_output_mj]
    IN  [out |-> Fresh(stream),
         results |-> "biogas_nm3_day" :> Round(biogas_production, 1)
                  @@ "methane_nm3_day" :> Round(ch4_production, 1)
                  @@ "methane_content_percent" :> Round(RMul(ch4_content, Hundred), 1)
                  @@ "conversion_efficiency" :> Round(RMul(efficiency, Hundred), 1)
                  @@ "energy_output_mj_day" :> Round(energy_output_mj, 0)
                  @@ "energy_output_kwh_day" :> Round(energy_output_kwh, 0)
                  @@ "hrt_days" :> Get(tech.defaults, "hrt", R(20, 1))
                  @@ "olr" :> Get(tech.defaults, "olr", R(3, 1))]

_calc_digester(tech, params, inputs) == Digest(tech, params, SumInputs(inputs).val)

Upgrade(tech, params, combined) ==
    LET defaults == tech.defaults
        recovery == AsFraction(Get(params, "recovery", Get(defaults, "recovery", R(96, 100))))
        energy_use == Get(defaults, "energy_use", R(25, 100))
        biomethane == RMul(combined.methane_content, recovery)
        ch4_purity == Get(defaults, "ch4_purity", R(97, 100))
        parasitic_load == RMul(combined.volume_flow, energy_use)
        co2_flow == RMul(combined.volume_flow,
                         RSub(One, Get(defaults, "ch4_content", R(60, 100))))
        stream == [StreamProperties EXCEPT
                      !.volume_flow = biomethane,
                      !.methane_content = biomethane,
                      !.energy_content = RMul(biomethane, CH4_LHV)]
    IN  [out |-> Fresh(stream),
         results |-> "biogas_input_nm3_day" :> Round(combined.volume_flow, 1)
                  @@ "biomethane_nm3_day" :> Round(biomethane, 1)
                  @@ "methane_purity_percent" :> Round(RMul(ch4_purity, Hundred), 1)
                  @@ "methane_recovery_percent" :> Round(RMul(recovery, Hundred), 1)
                  @@ "methane_loss_nm3_day" :>
                         Round(RSub(combined.methane_content, biomethane), 1)
                  @@ "parasitic_energy_kwh_day" :> Round(parasitic_load, 0)
                  @@ "co2_separated_nm3_day" :> Round(co2_flow, 1)]

_calc_upgrading(tech, params, inputs) == Upgrade(tech, params, SumInputs(inputs).val)

EndUse(tech, params, combined) ==
    LET defaults == tech.defaults
        chp ==
            LET elec_eff == AsFraction(Get(params, "elec_efficiency",
                                           Get(defaults, "elec_eff", R(38, 100))))
                therm_eff == AsFraction(Get(params, "therm_efficiency",
                                            Get(defaults, "therm_eff", R(45, 100))))
                energy_input_kwh == RMul(combined.methane_content, CH4_KWH)
                electricity_kwh == RMul(energy_input_kwh, elec_eff)
                thermal_kwh == RMul(energy_input_kwh, therm_eff)
                elec_price == Get(params, "elec_price", R(350, 1))
                daily_revenue == RMul(RDiv(electricity_kwh, Thousand), elec_price)
                annual_revenue == RMul(daily_revenue, OPERATING_DAYS)
            IN  "methane_input_nm3_day" :> Round(combined.methane_content, 1)
             @@ "energy_input_kwh_day" :> Round(energy_input_kwh, 0)
             @@ "electricity_kwh_day" :> Round(electricity_kwh, 0)
             @@ "electricity_mwh_year" :>
                    Round(RDiv(RMul(electricity_kwh, OPERATING_DAYS), Thousand), 0)
             @@ "thermal_kwh_day" :> Round(thermal_kwh, 0)
             @@ "electrical_efficiency_percent" :> Round(RMul(elec_eff, Hundred), 1)
             @@ "thermal_efficiency_percent" :> Round(RMul(therm_eff, Hundred), 1)
             @@ "total_efficiency_percent" :>
                    Round(RMul(RAdd(elec_eff, therm_eff), Hundred), 1)
             @@ "daily_revenue_brl" :> Round(daily_revenue, 2)
             @@ "annual_revenue_brl" :> Round(annual_revenue, 0)
        sale ==
            LET price == Get(params, "price", Get(defaults, "price", R(350, 100)))
                daily_revenue == RMul(combined.methane_content, price)
                annual_revenue == RMul(daily_revenue, OPERATING_DAYS)
            IN  "biomethane_nm3_day" :> Round(combined.methane_content, 1)
             @@ "biomethane_nm3_year" :>
                    Round(RMul(combined.methane_content, OPERATING_DAYS), 0)
             @@ "price_per_nm3" :> price
             @@ "daily_revenue_brl" :> Round(daily_revenue, 2)
             @@ "annual_revenue_brl" :> Round(annual_revenue, 0)
        boiler ==
            LET therm_eff == AsFraction(Get(params, "therm_efficiency",
                                            Get(defaults, "therm_eff", R(85, 100))))
                thermal_kwh == RMul(RDiv(combined.energy_content, MJ_PER_KWH), therm_eff)
            IN  "methane_input_nm3_day" :> Round(combined.methane_content, 1)
             @@ "thermal_kwh_day" :> Round(thermal_kwh, 0)
             @@ "thermal_efficiency_percent" :> Round(RMul(therm_eff, Hundred), 1)
        flare ==
            LET destruction_eff == Get(defaults, "destruction_efficiency", R(99, 100))
                co2_reduction == RMul(RMul(combined.methane_content, R(21, 1)),
                                      destruction_eff)
            IN  "methane_flared_nm3_day" :> Round(combined.methane_content, 1)
             @@ "destruction_efficiency_percent" :>
                    Round(RMul(destruction_eff, Hundred), 1)
             @@ "co2eq_avoided_kg_day" :> Round(co2_reduction, 0)
        results ==
            IF tech.id \in {"ice_cogen", "gas_turbine", "microturbine", "fuel_cell"} THEN chp
            ELSE IF tech.id \in {"biomethane_gnv", "biomethane_grid"} THEN sale
            ELSE IF tech.id = "boiler" THEN boiler
            ELSE IF tech.id = "flare" THEN flare
            ELSE EmptyDict
    IN  [out |-> Fresh(StreamProperties), results |-> results]

_calc_enduse(tech, params, inputs) == EndUse(tech, params, SumInputs(inputs).val)

_calc_byproduct(tech, params, inputs) ==
    [out |-> Fresh(StreamProperties),
     results |-> "tech_name" :> tech.name
              @@ "value_per_unit" :> Get(tech.defaults, "value", Zero)]

\* A dispatch that misspells the end-use category, so that end-use nodes
\* fall through to the pass-through branch.
_calculate_node_misspelt(tech, params, inputs) ==
    LET category == tech.category
    IN  IF category = "feedstock" THEN _calc_feedstock(tech, params)
        ELSE IF category = "pretreatment" THEN _calc_pretreatment(tech, params, inputs)
        ELSE IF category = "digester" THEN _calc_digester(tech, params, inputs)
        ELSE IF category = "upgrading" THEN _calc_upgrading(tech, params, inputs)
        ELSE IF category = "end_use" THEN _calc_enduse(tech, params, inputs)
        ELSE IF category = "byproduct" THEN _calc_byproduct(tech, params, inputs)
        ELSE [out |-> SumInputs(inputs), results |-> EmptyDict]

\* A dispatch whose last branch hands on an empty stream instead of the
\* folded input.
_calculate_node_dropping(tech, params, inputs) ==
    LET category == tech.category
    IN  IF category = "feedstock" THEN _calc_feedstock(tech, params)
        ELSE IF category = "pretreatment" THEN _calc_pretreatment(tech, params, inputs)
        ELSE IF category = "digester" THEN _calc_digester(tech, params, inputs)
        ELSE IF category = "upgrading" THEN _calc_upgrading(tech, params, inputs)
        ELSE IF category = "enduse" THEN _calc_enduse(tech, params, inputs)
        ELSE IF category = "byproduct" THEN _calc_byproduct(tech, params, inputs)
        ELSE [out |-> Fresh(StreamProperties), results |-> EmptyDict]

_calculate_node(tech, params, inputs) ==
    LET category == tech.category
    IN  IF category = "feedstock" THEN _calc_feedstock(tech, params)
        ELSE IF category = "pretreatment" THEN _calc_pretreatment(tech, params, inputs)
        ELSE IF category = "digester" THEN _calc_digester(tech, params, inputs)
        ELSE IF category = "upgrading" THEN _calc_upgrading(tech, params, inputs)
        ELSE IF category = "enduse" THEN _calc_enduse(tech, params, inputs)
        ELSE IF category = "byproduct" THEN _calc_byproduct(tech, params, inputs)
        ELSE [out |-> SumInputs(inputs), results |-> EmptyDict]

\* A total that stores the value of one record instead of accumulating.
SumOverOne(node_results, ids, key) ==
    IF ids = {} THEN Zero
    ELSE Get(node_results[CHOOSE x \in ids : TRUE], key, Zero)

\* _aggregate_results.  node_results is the dict of result records, streams
\* the stream map with each object replaced by its fields (asdict).
RECURSIVE SumOver(_, _, _)
SumOver(node_results, ids, key) ==
    IF ids = {} THEN Zero
    ELSE LET id == CHOOSE x \in ids : TRUE
         IN  RAdd(Get(node_results[id], key, Zero),
                  SumOver(node_results, ids \ {id}, key))

_aggregate_results(node_results, streams) ==
    LET total(key) == SumOver(node_results, DOMAIN node_results, key)
        total_biogas == total("biogas_nm3_day")
        total_methane == total("methane_nm3_day")
        total_biomethane == total("biomethane_nm3_day")
        total_electricity == total("electricity_kwh_day")
        total_thermal == total("thermal_kwh_day")
        total_revenue == total("annual_revenue_brl")
        emissions_avoided_daily ==
            RMul(RAdd(total_methane, total_biomethane), R(275, 100))
        emissions_avoided_annual == RMul(emissions_avoided_daily, OPERATING_DAYS)
    IN  [success |-> TRUE,
         summary |->
            [biogas_nm3_day |-> Round(total_biogas, 0),
             methane_nm3_day |-> Round(total_methane, 0),
             biomethane_nm3_day |-> Round(total_biomethane, 0),
             electricity_kwh_day |-> Round(total_electricity, 0),
             electricity_mwh_year |->
                 Round(RDiv(RMul(total_electricity, OPERATING_DAYS), Thousand), 0),
             thermal_kwh_day |-> Round(total_thermal, 0),
             annual_revenue_brl |-> Round(total_revenue, 0),
             emissions_avoided_kg_day |-> Round(emissions_avoided_daily, 0),
             emissions_avoided_ton_year |->
                 Round(RDiv(emissions_avoided_annual, Thousand), 1)],
         node_details |-> node_results,
         streams |-> streams]

-----------------------------------------------------------------------------
(* The graph (networkx.DiGraph as build_graph uses it): ids is the node    *)
(* insertion order, attrs the attribute dict of every node that add_node   *)
(* created, edges the distinct edges in insertion order.  A node that only *)
(* add_edge created has no attributes.                                     *)

EmptyGraph == [ids |-> <<>>, attrs |-> EmptyDict, edges |-> <<>>]

Range(seq) == {seq[i] : i \in DOMAIN seq}

\* DiGraph.add_node(node_id, tech_id=..., parameters=...)
AddNode(g, node) ==
    [g EXCEPT
        !.ids = IF node.node_id \in Range(@) THEN @ ELSE Append(@, node.node_id),
        !.attrs = (node.node_id :> [tech_id |-> node.tech_id,
                                    parameters |-> node.parameters]) @@ @]

\* DiGraph.add_edge(source, target): creates the nodes it does not know.
AddEdge(g, edge) ==
    LET withSource == IF edge.source \in Range(g.ids) THEN g.ids
                      ELSE Append(g.ids, edge.source)
        withTarget == IF edge.target \in Range(withSource) THEN withSource
                      ELSE Append(withSource, edge.target)
        e == <<edge.source, edge.target>>
    IN  [g EXCEPT
            !.ids = withTarget,
            !.edges = IF e \in Range(@) THEN @ ELSE Append(@, e)]

RECURSIVE AddNodes(_, _)
AddNodes(g, nodeList) ==
    IF nodeList = <<>> THEN g ELSE AddNodes(AddNode(g, Head(nodeList)), Tail(nodeList))

RECURSIVE AddEdges(_, _)
AddEdges(g, edgeList) ==
    IF edgeList = <<>> THEN g ELSE AddEdges(AddEdge(g, Head(edgeList)), Tail(edgeList))

\* The graph build_graph leaves in self.graph (it starts from a cleared one).
BuiltGraph(nodeList, edgeList) == AddEdges(AddNodes(EmptyGraph, nodeList), edgeList)

\* Nodes reachable from the nodes of `from` by one or more edges.
RECURSIVE ReachFrom(_, _)
ReachFrom(g, from) ==
    LET next == from \cup {e[2] : e \in {x \in Range(g.edges) : x[1] \in from}}
    IN  IF next = from THEN from ELSE ReachFrom(g, next)

Descendants(g, n) ==
    ReachFrom(g, {e[2] : e \in {x \in Range(g.edges) : x[1] = n}})

\* networkx.is_directed_acyclic_graph
IsDAG(g) == \A n \in Range(g.ids) : n \notin Descendants(g, n)

\* DiGraph.predecessors / successors: in edge insertion order.
Predecessors(g, n) ==
    LET into == SelectSeq(g.edges, LAMBDA e : e[2] = n)
    IN  [i \in DOMAIN into |-> into[i][1]]

Successors(g, n) ==
    LET outOf == SelectSeq(g.edges, LAMBDA e : e[1] = n)
    IN  [i \in DOMAIN outOf |-> outOf[i][2]]

RECURSIVE Orderings(_)
Orderings(S) ==
    IF S = {} THEN {<<>>}
    ELSE UNION {{<<x>> \o p : p \in Orderings(S \ {x})} : x \in S}

Position(seq, x) == CHOOSE i \in DOMAIN seq : seq[i] = x

\* A sort that ignores the edges.
AnyOrders(g) == Orderings(Range(g.ids))

\* networkx.topological_sort yields one order consistent with the edges;
\* which one depends on the insertion order of nodes and edges.
TopologicalOrders(g) ==
    {p \in Orderings(Range(g.ids)) :
        \A e \in Range(g.edges) : Position(p, e[1]) < Position(p, e[2])}

\* The key of an edge in the stream map: f"{source}->{target}"
EdgeKey(source, target) == source \o "->" \o target

-----------------------------------------------------------------------------
(* Requests.  A request is a node list and an edge list (CalculationRequest *)
(* after model_dump).                                                      *)

MaxEdges == 2

Node(node_id, tech_id, parameters) ==
    [node_id |-> node_id, tech_id |-> tech_id, parameters |-> parameters]

Edge(source, target) == [source |-> source, target |-> target]

\* Arbitrary small graphs: each of three ids is absent from the node list or
\* bound to one of a few technologies (one of them not in the catalog); the
\* edge list is any list of at most MaxEdges pairs of these ids, so it may
\* hold loops, repeated edges and ids that the node list lacks.
GraphIds == {"a", "b", "c"}

GraphTechs == {"vinasse", "bagasse", "thermal_hydrolysis", "cstr", "biochar"}

Binding(id) == {<<>>} \cup {<<Node(id, t, EmptyDict)>> : t \in GraphTechs}

GraphNodeLists == {x \o y \o z : x \in Binding("a"), y \in Binding("b"), z \in Binding("c")}

GraphEdges == {Edge(s, t) : s \in GraphIds, t \in GraphIds}

RECURSIVE SeqsUpTo(_, _)
SeqsUpTo(S, n) ==
    IF n = 0 THEN {<<>>}
    ELSE LET shorter == SeqsUpTo(S, n - 1)
         IN  shorter \cup {Append(s, x) : s \in shorter, x \in S}

GraphRequests ==
    {[nodes |-> ns, edges |-> es] : ns \in GraphNodeLists, es \in SeqsUpTo(GraphEdges, MaxEdges)}

\* Routes shaped like the scenario templates (backend/data/templates.py),
\* with the parameters varied.
P1(key, value) == key :> value

Feedstocks ==
    {Node("a", "vinasse", EmptyDict),
     Node("a", "vinasse", P1("quantity", R(1000, 1))),
     Node("a", "vinasse", P1("quantity", R(3, 1))),
     Node("a", "wash_water", P1("quantity", R(40, 1))),
     Node("a", "bagasse", P1("quantity", R(1, 10))),
     Node("a", "bagasse", P1("quantity", R(2, 10))),
     Node("a", "filter_cake", EmptyDict),
     Node("a", "vinasse", P1("quantity", R(-3, 1)))}

Pretreatments ==
    {Node("p", "thermal_hydrolysis", P1("temperature", R(170, 1))),
     Node("p", "mechanical_prep", EmptyDict),
     Node("p", "alkaline_pretreat", EmptyDict),
     Node("p", "mechanical_prep", P1("biogas_increase", R(30, 1)) @@ P1("energy_use", One))}

Digesters ==
    {Node("d", "uasb", EmptyDict),
     Node("d", "uasb", P1("efficiency", R(80, 1)) @@ P1("hrt", One)),
     Node("d", "uasb", P1("efficiency", R(8, 10))),
     Node("d", "cstr", P1("efficiency", R(70, 1))),
     Node("d", "pfr", P1("efficiency", R(75, 1))),
     Node("d", "cstr", P1("ch4_content", R(5, 10)))}

Upgraders ==
    {Node("u", "membrane", EmptyDict),
     Node("u", "membrane", P1("recovery", R(96, 1))),
     Node("u", "membrane", P1("ch4_purity", R(99, 1))),
     Node("u", "psa", P1("recovery", R(9, 10)))}

Consumers ==
    {Node("e", "ice_cogen", EmptyDict),
     Node("e", "ice_cogen", P1("elec_efficiency", R(40, 1))
                         @@ P1("therm_efficiency", R(45, 1))
                         @@ P1("elec_price", R(350, 1))),
     Node("e", "biomethane_gnv", P1("price", R(350, 100))),
     Node("e", "biomethane_grid", EmptyDict),
     Node("e", "boiler", EmptyDict),
     Node("e", "boiler", P1("therm_efficiency", R(85, 1))),
     Node("e", "flare", EmptyDict),
     Node("e", "flare", P1("destruction_efficiency", R(95, 1))),
     Node("e", "digestate_liquid", EmptyDict)}

Rename(node, id) == [node EXCEPT !.node_id = id]

\* feedstock -> digester -> end use, the end use also feeding a by-product
\* node so that its output stream reaches the stream map
StandardRoutes ==
    {[nodes |-> <<f, d, e, Node("z", "co2_capture", EmptyDict)>>,
      edges |-> <<Edge("a", "d"), Edge("d", "e"), Edge("e", "z")>>] :
        f \in Feedstocks, d \in Digesters, e \in Consumers}

\* feedstock -> digester -> upgrading -> end use
BiomethaneRoutes ==
    {[nodes |-> <<f, d, u, e>>,
      edges |-> <<Edge("a", "d"), Edge("d", "u"), Edge("u", "e")>>] :
        f \in {x \in Feedstocks : x.tech_id = "vinasse"},
        d \in {x \in Digesters : x.tech_id = "uasb"},
        u \in Upgraders,
        e \in {x \in Consumers : x.tech_id \in {"biomethane_gnv", "ice_cogen"}}}

\* two feedstocks -> digester -> end use
CoDigestionRoutes ==
    {[nodes |-> <<f1, Rename(f2, "b"), d, Node("e", "flare", EmptyDict)>>,
      edges |-> <<Edge("a", "d"), Edge("b", "d"), Edge("d", "e")>>] :
        f1 \in Feedstocks,
        f2 \in {x \in Feedstocks : x.parameters # EmptyDict /\ x.parameters # P1("quantity", R(1000, 1))},
        d \in {x \in Digesters : x.tech_id \in {"cstr", "uasb"} /\ x.parameters # EmptyDict}}

\* feedstock -> pretreatment -> digester -> end use
PretreatmentRoutes ==
    {[nodes |-> <<f, p, d, Node("e", "boiler", P1("therm_efficiency", R(85, 1)))>>,
      edges |-> <<Edge("a", "p"), Edge("p", "d"), Edge("d", "e")>>] :
        f \in {x \in Feedstocks : x.tech_id \in {"bagasse", "filter_cake"}},
        p \in Pretreatments,
        d \in {x \in Digesters : x.tech_id \in {"cstr", "pfr"}}}

\* two feedstocks -> pretreatment -> digester
MergingRoutes ==
    {[nodes |-> <<Node("a", "bagasse", P1("quantity", R(1, 10))), f2, p,
                  Node("d", "cstr", EmptyDict)>>,
      edges |-> <<Edge("a", "p"), Edge("b", "p"), Edge("p", "d")>>] :
        f2 \in {Node("b", "bagasse", P1("quantity", R(2, 10))),
                Node("b", "filter_cake", P1("quantity", R(1, 10)))},
        p \in Pretreatments}

\* two separate feedstock -> digester pairs whose node ids contain the
\* separator of the stream keys
SeparatorRoutes ==
    {[nodes |-> <<Node("a", "vinasse", P1("quantity", R(3, 1))),
                  Node("b->c", d1, EmptyDict),
                  Node("a->b", "wash_water", P1("quantity", R(40, 1))),
                  Node("c", d2, EmptyDict)>>,
      edges |-> <<Edge("a", "b->c"), Edge("a->b", "c")>>] :
        d1 \in {"uasb", "cstr"}, d2 \in {"uasb", "flare"}}

\* feedstock -> digester, the node list naming the feedstock's id twice
RepeatedIdRoutes ==
    {[nodes |-> <<Node("a", t1, EmptyDict), Node("b", d, EmptyDict),
                  Node("a", t2, EmptyDict)>>,
      edges |-> <<Edge("a", "b")>>] :
        t1 \in {"vinasse", "bagasse"}, t2 \in {"vinasse", "bagasse"},
        d \in {"uasb", "cstr"}}

RequestFamilies ==
    <<GraphRequests, StandardRoutes, BiomethaneRoutes, CoDigestionRoutes,
      PretreatmentRoutes, MergingRoutes, SeparatorRoutes, RepeatedIdRoutes>>

-----------------------------------------------------------------------------
(* POST /api/calculate: main.calculate_route creates an engine and calls   *)
(* CalculationEngine.calculate_route.                                      *)

VARIABLES
    nodes,          \* request.nodes
    edges,          \* request.edges
    pc,             \* "build", "loop" (the for loop over calc_order) or "done"
    graph,          \* engine.graph
    calc_order,     \* list(nx.topological_sort(self.graph))
    processed,      \* the nodes whose rule has run, in that order
    heap,           \* the StreamProperties objects the stream map refers to
    streams,        \* streams: edge key -> address in heap
    node_results,   \* node_results: node id -> result record
    input_streams,  \* per processed node, the fields of its input_streams list
    output_stream,  \* per processed node, the fields of the object its rule returned
    response,       \* what the handler sends: [status, body]; status 0 = none yet
    history,        \* the calls this engine instance has finished, oldest first
    pending         \* the requests still to be made on this engine instance

vars == <<nodes, edges, pc, graph, calc_order, processed, heap, streams,
          node_results, input_streams, output_stream, response, history, pending>>

NoResponse == [status |-> 0, body |-> "none"]

\* main.calculate_route's except clauses
BadRequest(message) == [status |-> 400, body |-> "Calculation error: " \o message]

ServerError(message) == [status |-> 500, body |-> "Internal server error: " \o message]

Ok(result) == [status |-> 200, body |-> result]

Init ==
    /\ \E family \in Range(RequestFamilies) :
          \E request \in family :
             /\ nodes = request.nodes
             /\ edges = request.edges
    /\ pc = "build"
    /\ graph = EmptyGraph
    /\ calc_order = <<>>
    /\ processed = <<>>
    /\ heap = <<>>
    /\ streams = EmptyDict
    /\ node_results = EmptyDict
    /\ input_streams = EmptyDict
    /\ output_stream = EmptyDict
    /\ response = NoResponse
    /\ history = <<>>
    /\ pending = <<>>

\* nx.topological_sort is a function of the graph object: a graph built by
\* the same insertions as in an earlier call is sorted as it was then.
Sorted(g) ==
    IF \E i \in DOMAIN history : history[i].graph = g
    THEN {history[i].calc_order : i \in {j \in DOMAIN history : history[j].graph = g}}
    ELSE TopologicalOrders(g)

\* build_graph without its acyclicity check: the sort then raises
\* NetworkXUnfeasible, which is no ValueError.
BuildGraphUnchecked ==
    /\ pc = "build"
    /\ graph' = BuiltGraph(nodes, edges)
    /\ IF IsDAG(graph')
       THEN /\ calc_order' \in Sorted(graph')
            /\ pc' = "loop"
            /\ response' = response
       ELSE /\ calc_order' = calc_order
            /\ pc' = "done"
            /\ response' = ServerError("Graph contains a cycle or graph changed during iteration")
    /\ UNCHANGED <<nodes, edges, processed, heap, streams, node_results,
                   input_streams, output_stream, history, pending>>

\* build_graph without self.graph.clear(): the nodes and edges of the
\* request are added to whatever the graph held.
BuildGraphOnto ==
    /\ pc = "build"
    /\ graph' = AddEdges(AddNodes(graph, nodes), edges)
    /\ IF IsDAG(graph')
       THEN /\ calc_order' \in Sorted(graph')
            /\ pc' = "loop"
            /\ response' = response
       ELSE /\ calc_order' = calc_order
            /\ pc' = "done"
            /\ response' = BadRequest("Route contains cycles - invalid configuration")
    /\ UNCHANGED <<nodes, edges, processed, heap, streams, node_results,
                   input_streams, output_stream, history, pending>>

\* build_graph, then the topological sort.  A cycle raises ValueError out of
\* build_graph; the graph stays as built.
BuildGraph ==
    /\ pc = "build"
    /\ graph' = BuiltGraph(nodes, edges)
    /\ IF IsDAG(graph')
       THEN /\ calc_order' \in Sorted(graph')
            /\ pc' = "loop"
            /\ response' = response
       ELSE /\ calc_order' = calc_order
            /\ pc' = "done"
            /\ response' = BadRequest("Route contains cycles - invalid configuration")
    /\ UNCHANGED <<nodes, edges, processed, heap, streams, node_results,
                   input_streams, output_stream, history, pending>>

\* The input_streams list of node_id: for each predecessor the object under
\* its edge key, or a new default object when the key is missing.
InputStreams(node_id) ==
    LET predecessors == Predecessors(graph, node_id)
    IN  [j \in DOMAIN predecessors |->
            LET key == EdgeKey(predecessors[j], node_id)
            IN  IF key \in DOMAIN streams
                THEN [addr |-> streams[key], val |-> heap[streams[key]]]
                ELSE Fresh(StreamProperties)]

\* An iteration that gives each outgoing edge an equal share of the output.
Share(val, k) ==
    [val EXCEPT !.mass_flow = RDiv(@, R(k, 1)), !.volume_flow = RDiv(@, R(k, 1)),
                !.energy_content = RDiv(@, R(k, 1)), !.methane_content = RDiv(@, R(k, 1)),
                !.cod = RDiv(@, R(k, 1)), !.vs_content = RDiv(@, R(k, 1))]

RecordShares(node_id, tech_id, tech, inputs, successors, r) ==
    /\ node_results' =
           (node_id :> (("tech_id" :> tech_id @@ "tech_name" :> tech.name
                         @@ "category" :> tech.category) @@ r.results))
           @@ node_results
    /\ heap' = IF successors = <<>> THEN heap
               ELSE Append(heap, Share(r.out.val, Len(successors)))
    /\ streams' =
           [k \in {EdgeKey(node_id, successors[j]) : j \in DOMAIN successors} |->
               Len(heap) + 1] @@ streams
    /\ processed' = Append(processed, node_id)
    /\ input_streams' =
           (node_id :> [j \in DOMAIN inputs |-> inputs[j].val]) @@ input_streams
    /\ output_stream' = (node_id :> r.out.val) @@ output_stream

\* An iteration that stores the output under the key of the first outgoing
\* edge only.
RecordFirstEdge(node_id, tech_id, tech, inputs, successors, r) ==
    /\ node_results' =
           (node_id :> (("tech_id" :> tech_id @@ "tech_name" :> tech.name
                         @@ "category" :> tech.category) @@ r.results))
           @@ node_results
    /\ heap' = IF successors = <<>> THEN heap ELSE Append(heap, r.out.val)
    /\ streams' =
           IF successors = <<>> THEN streams
           ELSE (EdgeKey(node_id, successors[1]) :> (Len(heap) + 1)) @@ streams
    /\ processed' = Append(processed, node_id)
    /\ input_streams' =
           (node_id :> [j \in DOMAIN inputs |-> inputs[j].val]) @@ input_streams
    /\ output_stream' = (node_id :> r.out.val) @@ output_stream

\* The end of an iteration: node_results[node_id] = ..., and the object the
\* rule returned goes under the key of every outgoing edge.  r.out.addr # 0
\* means the rule returned an object the stream map already holds, with the
\* fields r.out.val it has now.
Record(node_id, tech_id, tech, inputs, successors, r) ==
    LET updated == IF r.out.addr = 0 THEN heap
                   ELSE [heap EXCEPT ![r.out.addr] = r.out.val]
        stored == successors # <<>> /\ r.out.addr = 0
        addr == IF r.out.addr = 0 THEN Len(heap) + 1 ELSE r.out.addr
    IN  /\ node_results' =
               (node_id :> (("tech_id" :> tech_id
                             @@ "tech_name" :> tech.name
                             @@ "category" :> tech.category)
                            @@ r.results))
               @@ node_results
        /\ heap' = IF stored THEN Append(updated, r.out.val) ELSE updated
        /\ streams' =
               [k \in {EdgeKey(node_id, successors[j]) : j \in DOMAIN successors} |-> addr]
               @@ streams
        /\ processed' = Append(processed, node_id)
        /\ input_streams' =
               (node_id :> [j \in DOMAIN inputs |-> inputs[j].val]) @@ input_streams
        /\ output_stream' = (node_id :> r.out.val) @@ output_stream

Calculate(node_id, tech_id, tech, params, inputs) ==
    Record(node_id, tech_id, tech, inputs, Successors(graph, node_id),
           _calculate_node(tech, params, inputs))

\* asdict(v) for every entry of the stream map
StreamsAsDict == [k \in DOMAIN streams |-> heap[streams[k]]]

\* node_data['tech_id'] on a node without attributes raises KeyError, which
\* the handler answers with status 500.
MissingAttributes ==
    /\ pc' = "done"
    /\ response' = ServerError("'tech_id'")
    /\ UNCHANGED <<processed, heap, streams, node_results, input_streams, output_stream>>

\* An unknown technology that ends the loop and returns what has been
\* computed so far.
PartialResult(tech_id) ==
    /\ pc' = "done"
    /\ response' = Ok(_aggregate_results(node_results, StreamsAsDict))
    /\ UNCHANGED <<processed, heap, streams, node_results, input_streams, output_stream>>

\* raise ValueError(f"Technology '{tech_id}' not found in database")
UnknownTechnology(tech_id) ==
    /\ pc' = "done"
    /\ response' = BadRequest("Technology '" \o tech_id \o "' not found in database")
    /\ UNCHANGED <<processed, heap, streams, node_results, input_streams, output_stream>>

\* One iteration of the loop over calc_order, in an engine constructed with
\* the catalog tech_db (self.tech_db).
ProcessNodeWith(tech_db) ==
    /\ pc = "loop"
    /\ Len(processed) < Len(calc_order)
    /\ LET node_id == calc_order[Len(processed) + 1]
       IN  IF node_id \notin DOMAIN graph.attrs
           THEN MissingAttributes
           ELSE LET tech_id == graph.attrs[node_id].tech_id
                IN  IF tech_id \notin DOMAIN tech_db
                    THEN UnknownTechnology(tech_id)
                    ELSE /\ Calculate(node_id, tech_id, tech_db[tech_id],
                                      graph.attrs[node_id].parameters,
                                      InputStreams(node_id))
                         /\ pc' = pc
                         /\ response' = response
    /\ UNCHANGED <<nodes, edges, graph, calc_order, history, pending>>

\* The handler's engine: CalculationEngine(TECH_DATABASE)
ProcessNode == ProcessNodeWith(TECH_DATABASE)

\* After the loop: return self._aggregate_results(node_results, streams)
Aggregate ==
    /\ pc = "loop"
    /\ Len(processed) = Len(calc_order)
    /\ pc' = "done"
    /\ response' = Ok(_aggregate_results(node_results, StreamsAsDict))
    /\ UNCHANGED <<nodes, edges, graph, calc_order, processed, heap, streams,
                   node_results, input_streams, output_stream, history, pending>>

Next == BuildGraph \/ ProcessNode \/ Aggregate

Spec == Init /\ [][Next]_vars

-----------------------------------------------------------------------------
(* Properties *)

NodeIdsOf(nodeList) == {nodeList[i].node_id : i \in DOMAIN nodeList}

\* Every edge of the request joins two ids of the node list.
WellFormed ==
    \A i \in DOMAIN edges :
        edges[i].source \in NodeIdsOf(nodes) /\ edges[i].target \in NodeIdsOf(nodes)

TechsKnown == \A i \in DOMAIN nodes : nodes[i].tech_id \in DOMAIN TECH_DATABASE

\* The pairs joined by a walk of at most k + 1 edges of rel.
RECURSIVE Walks(_, _)
Walks(rel, k) ==
    IF k = 0 THEN rel
    ELSE LET shorter == Walks(rel, k - 1)
         IN  shorter \cup {<<p[1][1], p[2][2]>> :
                              p \in {q \in shorter \X rel : q[1][2] = q[2][1]}}

\* The edge list of the request holds a directed cycle.
CyclicRequest ==
    LET rel == {<<edges[i].source, edges[i].target>> : i \in DOMAIN edges}
    IN  \E w \in Walks(rel, Len(edges)) : w[1] = w[2]

CycleError == BadRequest("Route contains cycles - invalid configuration")

Failed == pc = "done" /\ response.status # 200

Returned == pc = "done" /\ response.status = 200

\* C1: on an acyclic request whose edges join listed nodes and whose
\* technologies are all in the catalog, the calculation terminates with a
\* result, having run the rule of every node of the graph exactly once; and
\* at every point of the loop each processed node comes after all of its
\* predecessors and appears once.
C1_EachOnceAfterPredecessors ==
    \A i \in DOMAIN processed :
        /\ \A j \in DOMAIN processed : processed[j] = processed[i] => j = i
        /\ \A k \in DOMAIN edges :
               edges[k].target = processed[i]
                   => \E j \in 1..(i - 1) : processed[j] = edges[k].source

C1_AllNodesDone ==
    /\ Returned
    /\ Range(processed) = NodeIdsOf(nodes)
    /\ Len(processed) = Cardinality(NodeIdsOf(nodes))
    /\ DOMAIN node_results = NodeIdsOf(nodes)

\* Termination is stated on the finite run: before the response some step of
\* the handler is possible, and every step lowers Remaining.
Remaining ==
    IF pc = "build" THEN Len(nodes) + 2 * Len(edges) + 2
    ELSE IF pc = "loop" THEN Len(calc_order) - Len(processed) + 1
    ELSE 0

CanStep ==
    \/ pc = "build" /\ (IsDAG(BuiltGraph(nodes, edges))
                           => TopologicalOrders(BuiltGraph(nodes, edges)) # {})
    \/ pc = "loop" /\ Len(processed) <= Len(calc_order)

C1_Progress ==
    /\ ~CyclicRequest => C1_EachOnceAfterPredecessors
    /\ (~CyclicRequest /\ WellFormed /\ TechsKnown)
          => /\ pc = "done" => C1_AllNodesDone
             /\ pc # "done" => CanStep

C1_TerminatesVisitingEachNodeOnce ==
    /\ []C1_Progress
    /\ [][Remaining' < Remaining /\ Remaining' >= 0]_vars

C1_Witness ==
    /\ C1_AllNodesDone
    /\ Len(processed) = 3
    /\ \E i, j \in DOMAIN edges :
           edges[i].target = edges[j].target /\ edges[i].source # edges[j].source

\* C2: a request whose edges hold a cycle (a loop on one node included) fails
\* with the cycle error whatever its nodes are, and no rule has run: there is
\* no node result and no stream.
C2_CycleFailsBeforeAnyNode ==
    (CyclicRequest /\ pc # "build")
        => /\ pc = "done"
           /\ response = CycleError
           /\ processed = <<>>
           /\ node_results = EmptyDict
           /\ streams = EmptyDict

C2_Witness ==
    /\ pc = "done"
    /\ response = CycleError
    /\ ~TechsKnown
    /\ Len(edges) = 2
    /\ edges[1].source # edges[1].target
    /\ edges[2] = Edge(edges[1].target, edges[1].source)

\* C3 (the claim as stated): a request with an edge that names an id absent
\* from the node list fails when the graph is built, so that the loop never
\* starts and no node is processed.
C3_DanglingEdgeFailsAtBuild ==
    (~WellFormed /\ pc # "build") => (Failed /\ processed = <<>>)

\* C4: a request with a node whose technology is not in the catalog never
\* returns a result; when the graph is acyclic and its edges join listed
\* nodes the failure is the unknown-technology error, also after earlier
\* nodes have been computed.
UnknownTechError ==
    {BadRequest("Technology '" \o nodes[i].tech_id \o "' not found in database") :
        i \in {j \in DOMAIN nodes : nodes[j].tech_id \notin DOMAIN TECH_DATABASE}}

C4_UnknownTechnologyFails ==
    ~TechsKnown
        => /\ pc = "done" => Failed
           /\ (pc = "done" /\ ~CyclicRequest /\ WellFormed) => response \in UnknownTechError

C4_Witness ==
    /\ pc = "done"
    /\ response \in UnknownTechError
    /\ Len(processed) >= 1
    /\ streams # EmptyDict

TechOf(node_id) == TECH_DATABASE[graph.attrs[node_id].tech_id]

ParamsOf(node_id) == graph.attrs[node_id].parameters

OutgoingKeys(node_id) ==
    {EdgeKey(node_id, edges[i].target) : i \in {j \in DOMAIN edges : edges[j].source = node_id}}

\* C5: every outgoing edge of a node holds the same stream, field for field,
\* at every point and in the returned stream map; when the node is processed
\* each of these streams is the whole output of its rule.
C5_SameOnEveryEdge ==
    /\ \A n \in Range(processed) :
          \A k1, k2 \in OutgoingKeys(n) :
             /\ k1 \in DOMAIN streams
             /\ StreamsAsDict[k1] = StreamsAsDict[k2]
    /\ Returned =>
          \A n \in Range(processed) :
             \A k1, k2 \in OutgoingKeys(n) :
                /\ k1 \in DOMAIN response.body.streams
                /\ response.body.streams[k1] = response.body.streams[k2]

C5_WholeOutputWhenProcessed ==
    \A n \in Range(graph.ids) :
        processed' = Append(processed, n)
            => \A k \in OutgoingKeys(n) : heap'[streams'[k]] = output_stream'[n]

C5_FanOutReplicates ==
    /\ []C5_SameOnEveryEdge
    /\ [][C5_WholeOutputWhenProcessed]_vars

C5_Witness ==
    /\ Returned
    /\ \E n \in Range(processed) :
          /\ Cardinality(OutgoingKeys(n)) = 2
          /\ output_stream[n].vs_content # Zero
          /\ \A k \in OutgoingKeys(n) : response.body.streams[k] = output_stream[n]

\* C6: the input a node folds from two or more incoming edges has every
\* flow/content field equal to the sum of that field over the streams on
\* these edges, whatever the order and the grouping of the fold; a digester
\* computes its output from these sums; masses 100 and 200 fold to 300.
RECURSIVE SumOfField(_, _, _)
SumOfField(ins, indices, field) ==
    IF indices = {} THEN Zero
    ELSE LET i == CHOOSE x \in indices : TRUE
         IN  RAdd(ins[i][field], SumOfField(ins, indices \ {i}, field))

Handles(ins) == [j \in DOMAIN ins |-> Fresh(ins[j])]

Reorderings(ins) == {[j \in DOMAIN ins |-> ins[p[j]]] : p \in Orderings(DOMAIN ins)}

Folded(ins) == SumInputs(Handles(ins)).val

FieldSums(ins) ==
    [StreamProperties EXCEPT
        !.mass_flow = SumOfField(ins, DOMAIN ins, "mass_flow"),
        !.volume_flow = SumOfField(ins, DOMAIN ins, "volume_flow"),
        !.energy_content = SumOfField(ins, DOMAIN ins, "energy_content"),
        !.methane_content = SumOfField(ins, DOMAIN ins, "methane_content"),
        !.cod = SumOfField(ins, DOMAIN ins, "cod"),
        !.vs_content = SumOfField(ins, DOMAIN ins, "vs_content")]

FoldsSeveral(n) ==
    /\ n \in DOMAIN input_streams
    /\ Len(input_streams[n]) >= 2
    /\ TechOf(n).category # "feedstock"

C6_FoldIsFieldSum ==
    \A n \in Range(processed) :
        FoldsSeveral(n) =>
            LET ins == input_streams[n]
            IN  /\ \A r \in Reorderings(ins) : \A f \in FlowFields :
                      /\ Folded(r)[f] = FieldSums(ins)[f]
                      /\ \A k \in 1..(Len(r) - 1) :
                            StreamAdd(Folded(SubSeq(r, 1, k)),
                                      Folded(SubSeq(r, k + 1, Len(r))))[f]
                                = FieldSums(ins)[f]
                /\ TechOf(n).category = "digester"
                      => output_stream[n] = Digest(TechOf(n), ParamsOf(n), FieldSums(ins)).out.val
                /\ (Len(ins) = 2 /\ ins[1].mass_flow = R(100, 1) /\ ins[2].mass_flow = R(200, 1))
                      => Folded(ins).mass_flow = R(300, 1)

\* What a node reads are the streams on its incoming edges as they are when
\* it is processed.
C6_ReadsIncomingEdges ==
    \A n \in Range(graph.ids) :
        processed' = Append(processed, n)
            => LET predecessors == Predecessors(graph, n)
               IN  input_streams'[n] =
                       [j \in DOMAIN predecessors |->
                           heap[streams[EdgeKey(predecessors[j], n)]]]

C7_EndUseAndByproductEmitNothing ==
    \A n \in Range(processed) :
        TechOf(n).category \in {"enduse", "byproduct"} =>
            /\ \A f \in FlowFields : output_stream[n][f] = Zero
            /\ output_stream[n] = StreamProperties
            /\ \A k \in OutgoingKeys(n) : StreamsAsDict[k] = StreamProperties

C7_Witness ==
    \E n \in Range(processed) :
        /\ graph.attrs[n].tech_id = "ice_cogen"
        /\ RGt(node_results[n]["annual_revenue_brl"], Zero)
        /\ RGt(input_streams[n][1].methane_content, Zero)
        /\ OutgoingKeys(n) # {}
        /\ \A k \in OutgoingKeys(n) : StreamsAsDict[k] = StreamProperties

\* C8: every ratio-like parameter supplied with a value above 1 is taken as a
\* percentage in every rule: the percentage a node reports is the supplied
\* value, for the digester efficiency, the upgrading recovery and purity, the
\* cogeneration electrical and thermal efficiencies, the boiler thermal
\* efficiency and the flare destruction efficiency.
AsPercent(x) == Round(RMul(RDiv(x, Hundred), Hundred), 1)

Supplied(n, key) == key \in DOMAIN ParamsOf(n) /\ RGt(ParamsOf(n)[key], One)

Reports(n, key, result) ==
    Supplied(n, key) => node_results[n][result] = AsPercent(ParamsOf(n)[key])

C8_EveryRatioAboveOneIsPercent ==
    \A n \in Range(processed) :
        LET tech == TechOf(n)
        IN  /\ tech.category = "digester"
                => Reports(n, "efficiency", "conversion_efficiency")
            /\ tech.category = "upgrading"
                => /\ Reports(n, "recovery", "methane_recovery_percent")
                   /\ Reports(n, "ch4_purity", "methane_purity_percent")
            /\ tech.id \in {"ice_cogen", "gas_turbine", "microturbine", "fuel_cell"}
                => /\ Reports(n, "elec_efficiency", "electrical_efficiency_percent")
                   /\ Reports(n, "therm_efficiency", "thermal_efficiency_percent")
            /\ tech.id = "boiler"
                => Reports(n, "therm_efficiency", "thermal_efficiency_percent")
            /\ tech.id = "flare"
                => Reports(n, "destruction_efficiency", "destruction_efficiency_percent")

\* C9: a liquid feedstock node with quantity q and chemical oxygen demand c
\* emits volume q, COD q * c and volatile solids 0.7 of the COD, with zero
\* mass and zero energy; q = 1000 and c = 25 give COD 25000 and VS 17500.
IsLiquidFeedstock(n) ==
    TechOf(n).category = "feedstock" /\ "liquid_organic" \in TechOf(n).outputs

Quantity(n) == Get(ParamsOf(n), "quantity", TechOf(n).parameters[1].default_value)

C9_LiquidFeedstockOutput ==
    \A n \in Range(processed) :
        IsLiquidFeedstock(n) =>
            LET q == Quantity(n)
                c == TechOf(n).defaults["cod"]
                out == output_stream[n]
            IN  /\ out.volume_flow = q
                /\ out.cod = RMul(q, c)
                /\ out.vs_content = RMul(R(7, 10), out.cod)
                /\ out.mass_flow = Zero
                /\ out.energy_content = Zero
                /\ (q = Thousand /\ c = R(25, 1))
                      => out.cod = R(25000, 1) /\ out.vs_content = R(17500, 1)

C9_Witness ==
    \E n \in Range(processed) :
        /\ IsLiquidFeedstock(n)
        /\ Quantity(n) = Thousand
        /\ TechOf(n).defaults["cod"] = R(25, 1)
        /\ output_stream[n].cod = R(25000, 1)
        /\ output_stream[n].vs_content = R(17500, 1)
        /\ output_stream[n].volume_flow = Thousand

\* C10: a digester emits no mass, COD or volatile solids; with input COD
\* 25000, efficiency 0.80 (given as 0.8 or as 80) and methane fraction 0.65
\* it emits methane 7000, biogas 7000 / 0.65 and energy 7000 * 35.8 = 250600.
Efficiency(n) ==
    Get(ParamsOf(n), "efficiency", Get(TechOf(n).defaults, "efficiency", R(7, 10)))

MethaneFraction(n) == Get(TechOf(n).defaults, "ch4_content", R(6, 10))

IsDigester(n) == TechOf(n).category = "digester"

-----------------------------------------------------------------------------
(* POST /api/validate: main.validate_route builds the graph and checks the *)
(* kinds on every edge of the request.                                     *)

\* next(n for n in nodes_data if n['node_id'] == id): the first such node
NodeOf(nodeList, id) ==
    nodeList[CHOOSE i \in DOMAIN nodeList :
                 /\ nodeList[i].node_id = id
                 /\ \A j \in 1..(i - 1) : nodeList[j].node_id # id]

\* An exception that no except clause of the handler catches.
Unhandled == [status |-> 500, body |-> "Internal Server Error"]

\* The entry appended for an incompatible edge.  details is the text
\* f"{name} outputs {set} but {name} accepts {set}"; the order in which a
\* set of strings prints is not fixed, so the parts are kept apart.
Incompatible(edge, source_tech, target_tech) ==
    [edge |-> edge.source \o " -> " \o edge.target,
     error |-> "Incompatible connection",
     details |-> [source |-> source_tech.name, outputs |-> source_tech.outputs,
                  target |-> target_tech.name, accepts |-> target_tech.accepts]]

\* A check that returns as soon as one edge is incompatible.
RECURSIVE CheckEdgesUntilFirst(_, _, _)
CheckEdgesUntilFirst(nodeList, edgeList, errors) ==
    IF edgeList = <<>> \/ errors # <<>> THEN [raised |-> FALSE, errors |-> errors]
    ELSE LET edge == Head(edgeList)
         IN  IF \/ edge.source \notin {nodeList[i].node_id : i \in DOMAIN nodeList}
                \/ edge.target \notin {nodeList[i].node_id : i \in DOMAIN nodeList}
             THEN [raised |-> TRUE, errors |-> errors]
             ELSE LET source_node == NodeOf(nodeList, edge.source)
                      target_node == NodeOf(nodeList, edge.target)
                  IN  IF \/ source_node.tech_id \notin DOMAIN TECH_DATABASE
                         \/ target_node.tech_id \notin DOMAIN TECH_DATABASE
                      THEN [raised |-> TRUE, errors |-> errors]
                      ELSE LET source_tech == TECH_DATABASE[source_node.tech_id]
                               target_tech == TECH_DATABASE[target_node.tech_id]
                           IN  CheckEdgesUntilFirst(nodeList, Tail(edgeList),
                                   IF /\ target_tech.accepts # {}
                                      /\ source_tech.outputs \cap target_tech.accepts = {}
                                   THEN Append(errors, Incompatible(edge, source_tech, target_tech))
                                   ELSE errors)

\* The loop "for edge in edges_data".  next(...) on an id that the node list
\* lacks raises StopIteration and TECH_DATABASE[...] on an unknown technology
\* raises KeyError; neither is a ValueError.
RECURSIVE CheckEdges(_, _, _)
CheckEdges(nodeList, edgeList, errors) ==
    IF edgeList = <<>> THEN [raised |-> FALSE, errors |-> errors]
    ELSE LET edge == Head(edgeList)
         IN  IF \/ edge.source \notin {nodeList[i].node_id : i \in DOMAIN nodeList}
                \/ edge.target \notin {nodeList[i].node_id : i \in DOMAIN nodeList}
             THEN [raised |-> TRUE, errors |-> errors]
             ELSE LET source_node == NodeOf(nodeList, edge.source)
                      target_node == NodeOf(nodeList, edge.target)
                  IN  IF \/ source_node.tech_id \notin DOMAIN TECH_DATABASE
                         \/ target_node.tech_id \notin DOMAIN TECH_DATABASE
                      THEN [raised |-> TRUE, errors |-> errors]
                      ELSE LET source_tech == TECH_DATABASE[source_node.tech_id]
                               target_tech == TECH_DATABASE[target_node.tech_id]
                           IN  CheckEdges(nodeList, Tail(edgeList),
                                   IF /\ target_tech.accepts # {}
                                      /\ source_tech.outputs \cap target_tech.accepts = {}
                                   THEN Append(errors, Incompatible(edge, source_tech, target_tech))
                                   ELSE errors)

\* The report of validate_route; it is sent with status 200 in every case
\* that the handler itself answers.
Report(g, nodeList, edgeList) ==
    IF ~IsDAG(g)
    THEN Ok([success |-> FALSE, valid |-> FALSE,
             errors |-> <<[error |-> "Route contains cycles - invalid configuration"]>>])
    ELSE LET checked == CheckEdges(nodeList, edgeList, <<>>)
         IN  IF checked.raised THEN Unhandled
             ELSE IF checked.errors # <<>>
                  THEN Ok([success |-> FALSE, valid |-> FALSE, errors |-> checked.errors])
                  ELSE Ok([success |-> TRUE, valid |-> TRUE,
                           message |-> "Route configuration is valid"])

ValidateRoute ==
    /\ pc = "build"
    /\ graph' = BuiltGraph(nodes, edges)
    /\ pc' = "done"
    /\ response' = Report(graph', nodes, edges)
    /\ UNCHANGED <<nodes, edges, calc_order, processed, heap, streams, node_results,
                   input_streams, output_stream, history, pending>>

ValidateNext == ValidateRoute

ValidateSpec == Init /\ [][ValidateNext]_vars

TechOfId(id) == TECH_DATABASE[NodeOf(nodes, id).tech_id]

\* Edge i of the request joins a source whose output kinds all lie outside
\* the non-empty set of kinds its target accepts.
Offends(i) ==
    /\ TechOfId(edges[i].target).accepts # {}
    /\ \A kind \in TechOfId(edges[i].source).outputs :
           kind \notin TechOfId(edges[i].target).accepts

EdgeLabel(i) == edges[i].source \o " -> " \o edges[i].target

\* C11: validate on an acyclic route (its edges joining listed nodes of
\* known technologies) answers without raising; the report is valid exactly
\* when no edge offends, and otherwise lists, in the order of the edges, one
\* entry for each offending edge and nothing else, so that an edge into a
\* target that accepts anything has no entry.
C11_ValidateListsEveryOffendingEdge ==
    (pc = "done" /\ ~CyclicRequest /\ WellFormed /\ TechsKnown) =>
        LET offending == SelectSeq([i \in DOMAIN edges |-> i], LAMBDA i : Offends(i))
        IN  /\ response.status = 200
            /\ response.body.valid = (offending = <<>>)
            /\ offending # <<>> =>
                  /\ Len(response.body.errors) = Len(offending)
                  /\ \A k \in DOMAIN offending :
                        /\ response.body.errors[k].edge = EdgeLabel(offending[k])
                        /\ response.body.errors[k].error = "Incompatible connection"
                  /\ \A i \in DOMAIN edges :
                        TechOfId(edges[i].target).accepts = {}
                            => \A k \in DOMAIN response.body.errors :
                                   response.body.errors[k].edge # EdgeLabel(i)

C11_Witness ==
    /\ pc = "done"
    /\ ~CyclicRequest /\ WellFormed /\ TechsKnown
    /\ Len(edges) = 3
    /\ response.status = 200
    /\ response.body.valid = FALSE
    /\ Len(response.body.errors) = 2
    /\ ~Offends(2)
    /\ Offends(1) /\ Offends(3)

-----------------------------------------------------------------------------
(* Parameter resolution *)

\* The node parameter that stands for each profile default.
ParameterOf ==
    [pretreatment |-> "biogas_increase" :> "biogas_increase" @@ "energy_use" :> "energy_use",
     digester |-> "efficiency" :> "efficiency" @@ "ch4_content" :> "ch4_content",
     upgrading |-> "recovery" :> "recovery",
     enduse |-> "elec_eff" :> "elec_efficiency" @@ "therm_eff" :> "therm_efficiency"
                @@ "price" :> "price",
     feedstock |-> EmptyDict,
     byproduct |-> EmptyDict]

\* The profile with each default replaced by the value the node supplies for
\* it, the default of the quantity parameter included.
Resolved(tech, params) ==
    LET names == ParameterOf[tech.category]
        given == {k \in DOMAIN names : names[k] \in DOMAIN params}
    IN  [tech EXCEPT
            !.defaults = [k \in given |-> params[names[k]]] @@ @,
            !.parameters =
                IF tech.category = "feedstock" /\ "quantity" \in DOMAIN params /\ @ # <<>>
                THEN [@ EXCEPT ![1].default_value = params["quantity"]]
                ELSE @]

\* The parameters for which no profile holds a default.
Unresolved(params) == [k \in DOMAIN params \cap {"elec_price"} |-> params[k]]

\* C12 (the claim as stated): for every processed node, the rule gives what
\* it gives on the profile in which the supplied values of quantity, biogas
\* increase, energy use, efficiency, methane content, recovery, end-use
\* efficiencies and price stand in place of the defaults: a supplied value
\* is what the rule uses, the default only when none is supplied.
C12_SuppliedValuesReplaceDefaults ==
    \A n \in Range(processed) :
        LET r == _calculate_node(Resolved(TechOf(n), ParamsOf(n)),
                                 Unresolved(ParamsOf(n)),
                                 Handles(input_streams[n]))
        IN  /\ r.out.val = output_stream[n]
            /\ \A key \in DOMAIN r.results : node_results[n][key] = r.results[key]

\* C13 (the claim as stated): a step of the loop leaves every stream that
\* the stream map already holds with the field values it had, whatever the
\* number of inbound streams of the node processed.
C13_RecordedStreamsKeepTheirValues ==
    [][\A k \in DOMAIN streams :
           k \in DOMAIN streams' /\ heap'[streams'[k]] = heap[streams[k]]]_vars

\* C14 (the claim as stated): every flow/content field of every stream of a
\* returned result is non-negative; a request from which a rule derives a
\* negative quantity gets an error (status 400) instead of a result.
C14_ReturnedStreamsAreNonNegative ==
    Returned =>
        \A k \in DOMAIN response.body.streams : \A f \in FlowFields :
            ~RLt(response.body.streams[k][f], Zero)

\* The characters that may stand next to a name in a message.
Delimiters == {" ", "'", ":", ",", ".", "-", ">", "(", ")"}

\* word occurs in message as a whole word.
WordIn(message, word) ==
    \E i \in 1..(Len(message) - Len(word) + 1) :
        /\ SubSeq(message, i, i + Len(word) - 1) = word
        /\ i = 1 \/ SubSeq(message, i - 1, i - 1) \in Delimiters
        /\ \/ i + Len(word) - 1 = Len(message)
           \/ SubSeq(message, i + Len(word), i + Len(word)) \in Delimiters

\* C15 (the claim as stated): a calculation that fails, for a cycle, an edge
\* naming a missing node, an unknown technology or any other cause, answers
\* with one failure whose message names a node id of the request or of the
\* graph (an edge is named by the ids it joins).
C15_FailureNamesNodeOrEdge ==
    Failed =>
        /\ response.status \in {400, 500}
        /\ \E id \in NodeIdsOf(nodes) \cup Range(graph.ids) : WordIn(response.body, id)

-----------------------------------------------------------------------------
(* Several calls of calculate_route on one engine instance.  self.graph    *)
(* outlives a call; streams and node_results are locals of the call.       *)

\* The requests of the first call: three nodes, any edge list.
FirstRequests ==
    {r \in GraphRequests :
        /\ Len(r.nodes) = 3
        /\ r.nodes[1].tech_id = "bagasse"
        /\ r.nodes[2].tech_id \in {"thermal_hydrolysis", "biochar"}
        /\ r.nodes[3].tech_id = "cstr"}

\* Requests made in between: one that succeeds, one with a cycle, one with
\* an edge to a missing node and one with an unknown technology.
OtherRequests ==
    {[nodes |-> <<Node("c", "vinasse", EmptyDict), Node("a", "uasb", EmptyDict)>>,
      edges |-> <<Edge("c", "a")>>],
     [nodes |-> <<Node("b", "vinasse", EmptyDict)>>,
      edges |-> <<Edge("b", "a"), Edge("a", "b")>>],
     [nodes |-> <<Node("c", "bagasse", EmptyDict)>>,
      edges |-> <<Edge("c", "x")>>],
     [nodes |-> <<Node("b", "bagasse", EmptyDict), Node("a", "biochar", EmptyDict)>>,
      edges |-> <<Edge("b", "a")>>]}

Reversed(seq) == [i \in DOMAIN seq |-> seq[Len(seq) + 1 - i]]

\* The engine is new; the first request is then repeated after another
\* request, or repeated with its edges listed in the opposite order.
ReuseInit ==
    /\ \E first \in FirstRequests :
          /\ nodes = first.nodes
          /\ edges = first.edges
          /\ \/ \E other \in OtherRequests : pending = <<other, first>>
             \/ pending = <<[first EXCEPT !.edges = Reversed(@)]>>
    /\ pc = "build"
    /\ graph = EmptyGraph
    /\ calc_order = <<>>
    /\ processed = <<>>
    /\ heap = <<>>
    /\ streams = EmptyDict
    /\ node_results = EmptyDict
    /\ input_streams = EmptyDict
    /\ output_stream = EmptyDict
    /\ response = NoResponse
    /\ history = <<>>

\* The call has returned or raised; the next request is made on the same
\* engine.  The graph is the engine's and stays; everything else belongs to
\* the call and starts anew.
NextCall ==
    /\ pc = "done"
    /\ pending # <<>>
    /\ history' = Append(history, [nodes |-> nodes, edges |-> edges, graph |-> graph,
                                   calc_order |-> calc_order, response |-> response])
    /\ nodes' = Head(pending).nodes
    /\ edges' = Head(pending).edges
    /\ pending' = Tail(pending)
    /\ pc' = "build"
    /\ calc_order' = <<>>
    /\ processed' = <<>>
    /\ heap' = <<>>
    /\ streams' = EmptyDict
    /\ node_results' = EmptyDict
    /\ input_streams' = EmptyDict
    /\ output_stream' = EmptyDict
    /\ response' = NoResponse
    /\ UNCHANGED graph

ReuseNext == BuildGraph \/ ProcessNode \/ Aggregate \/ NextCall

ReuseSpec == ReuseInit /\ [][ReuseNext]_vars

\* C16: a call answers as every earlier call of the same engine with the
\* same node list and edge list answered, whatever calls (successful or
\* failed, on other graphs) were made in between; the first of them ran on a
\* new engine.
C16_SameRequestSameAnswer ==
    \A i \in DOMAIN history :
        (pc = "done" /\ history[i].nodes = nodes /\ history[i].edges = edges)
            => response = history[i].response

C16_Witness ==
    /\ Len(history) = 2
    /\ Returned
    /\ history[1].nodes = nodes /\ history[1].edges = edges
    /\ history[2].response = CycleError
    /\ response = history[1].response
    /\ Len(edges) = 2
    /\ DOMAIN response.body.streams = {"a->b", "b->c"}

\* C17 (the claim as stated): two calls on the same nodes and the same edges
\* that both return a result return the same result, whichever topological
\* orders the two calls follow (the edges listed in another order let the
\* sort break its ties differently).
C17_ResultIsTheSameForEveryOrder ==
    \A i \in DOMAIN history :
        (/\ Returned
         /\ history[i].response.status = 200
         /\ history[i].nodes = nodes
         /\ Len(history[i].edges) = Len(edges)
         /\ Range(history[i].edges) = Range(edges))
            => response.body = history[i].response.body

-----------------------------------------------------------------------------
(* _sum_inputs on its own: the lists of up to MaxInputs streams over a few *)
(* masses, temperatures and pressures.                                     *)

MaxInputs == 3

SampleStreams ==
    {[StreamProperties EXCEPT !.mass_flow = m, !.temperature = t, !.pressure = p] :
        m \in {Zero, R(100, 1)},
        t \in {R(20, 1), R(35, 1), R(55, 1)},
        p \in {R(1, 2), One, R(2, 1)}}

FoldInit ==
    /\ heap \in SeqsUpTo(SampleStreams, MaxInputs)
    /\ pc = "fold"
    /\ nodes = <<>>
    /\ edges = <<>>
    /\ graph = EmptyGraph
    /\ calc_order = <<>>
    /\ processed = <<>>
    /\ streams = EmptyDict
    /\ node_results = EmptyDict
    /\ input_streams = EmptyDict
    /\ output_stream = EmptyDict
    /\ response = NoResponse
    /\ history = <<>>
    /\ pending = <<>>

\* self._sum_inputs(inputs) with the objects of the heap as inputs
Fold ==
    /\ pc = "fold"
    /\ pc' = "done"
    /\ input_streams' = ("fold" :> heap)
    /\ output_stream' =
           ("fold" :> SumInputs([j \in DOMAIN heap |-> [addr |-> j, val |-> heap[j]]]).val)
    /\ UNCHANGED <<nodes, edges, graph, calc_order, processed, heap, streams,
                   node_results, response, history, pending>>

FoldNext == Fold

FoldSpec == FoldInit /\ [][FoldNext]_vars

\* C18: folding no stream gives the default stream, folding one stream gives
\* that stream's values, folding two gives the mean of their temperatures
\* and the lower of their pressures, and for any number of streams the
\* pressure is the lowest of all.
C18_FoldOfTemperatureAndPressure ==
    pc = "done" =>
        LET ins == input_streams["fold"]
            out == output_stream["fold"]
        IN  /\ Len(ins) = 0
                => out = StreamProperties /\ \A f \in FlowFields : out[f] = Zero
            /\ Len(ins) = 1 => out = ins[1]
            /\ Len(ins) = 2
                => /\ out.temperature
                        = RDiv(RAdd(ins[1].temperature, ins[2].temperature), R(2, 1))
                   /\ out.pressure = RMin(ins[1].pressure, ins[2].pressure)
            /\ Len(ins) >= 1
                => /\ \E i \in DOMAIN ins : out.pressure = ins[i].pressure
                   /\ \A i \in DOMAIN ins : ~RLt(ins[i].pressure, out.pressure)

C18_Witness ==
    /\ pc = "done"
    /\ Len(input_streams["fold"]) = 2
    /\ input_streams["fold"][1].temperature = R(20, 1)
    /\ input_streams["fold"][2].temperature = R(55, 1)
    /\ input_streams["fold"][1].pressure = R(2, 1)
    /\ input_streams["fold"][2].pressure = R(1, 2)
    /\ output_stream["fold"].temperature = R(75, 2)
    /\ output_stream["fold"].pressure = R(1, 2)

\* C19: a digester whose folded input has COD > 0 produces methane
\* COD * 0.35 * efficiency and biogas methane / fraction, and the same output
\* whatever the VS of that input; otherwise it produces biogas
\* VS * 0.40 * efficiency and methane biogas * fraction.
C19_DigesterPathway ==
    \A n \in Range(processed) :
        IsDigester(n) =>
            LET combined == Folded(input_streams[n])
                efficiency == AsFraction(Efficiency(n))
                out == output_stream[n]
            IN  IF RGt(combined.cod, Zero)
                THEN /\ out.methane_content
                          = RMul(RMul(combined.cod, R(35, 100)), efficiency)
                     /\ out.volume_flow = RDiv(out.methane_content, MethaneFraction(n))
                     /\ \A vs \in {Zero, One, RMul(R(2, 1), combined.vs_content)} :
                            Digest(TechOf(n), ParamsOf(n),
                                   [combined EXCEPT !.vs_content = vs]).out.val = out
                ELSE /\ out.volume_flow
                          = RMul(RMul(combined.vs_content, R(40, 100)), efficiency)
                     /\ out.methane_content = RMul(out.volume_flow, MethaneFraction(n))

C19_Witness ==
    \E n \in Range(processed) :
        /\ IsDigester(n)
        /\ Len(input_streams[n]) = 2
        /\ RGt(input_streams[n][1].cod, Zero)
        /\ input_streams[n][2].cod = Zero
        /\ RGt(input_streams[n][2].vs_content, Zero)
        /\ output_stream[n].methane_content
               = RMul(RMul(input_streams[n][1].cod, R(35, 100)), AsFraction(Efficiency(n)))

\* What a pretreatment node is to emit: its folded input with the VS content
\* multiplied by 1 + biogas_increase / 100.
Boosted(n) ==
    LET combined == Folded(input_streams[n])
        biogas_increase == RDiv(TechOf(n).defaults["biogas_increase"], Hundred)
    IN  [combined EXCEPT !.vs_content = RMul(@, RAdd(One, biogas_increase))]

\* C20 (the claim as stated): the output of a pretreatment node is its folded
\* input with only the VS content scaled, by the node's own factor; the
\* stream it emitted onto its outgoing edges carries that boost exactly once
\* and no other, also after a later pretreatment node has been processed.
C20_PretreatmentBoostsOnce ==
    \A n \in Range(processed) :
        TechOf(n).category = "pretreatment" =>
            /\ output_stream[n] = Boosted(n)
            /\ \A k \in OutgoingKeys(n) : StreamsAsDict[k] = Boosted(n)

-----------------------------------------------------------------------------
(* Further properties of the rules *)

\* C21 (the claim as stated): the parasitic energy a pretreatment node
\* reports is, for thermal_hydrolysis, the VS content of its folded input as
\* received times the energy-use coefficient of the profile, for
\* mechanical_prep the input mass in tonnes times the coefficient, and zero
\* for every other pretreatment.
C21_ParasiticEnergyOfInputAsReceived ==
    \A n \in Range(processed) :
        TechOf(n).category = "pretreatment" =>
            LET received == Folded(input_streams[n])
                energy_use == TechOf(n).defaults["energy_use"]
                parasitic == node_results[n]["parasitic_energy_kwh"]
            IN  /\ TechOf(n).id = "thermal_hydrolysis"
                    => parasitic = RMul(received.vs_content, energy_use)
                /\ TechOf(n).id = "mechanical_prep"
                    => parasitic = RMul(RDiv(received.mass_flow, Thousand), energy_use)
                /\ TechOf(n).id \notin {"thermal_hydrolysis", "mechanical_prep"}
                    => parasitic = Zero


\* The recovery an upgrading node works with, as a fraction.
RecoveryOf(n) ==
    LET given == Get(ParamsOf(n), "recovery", Get(TechOf(n).defaults, "recovery", R(96, 100)))
    IN  IF RGt(given, One) THEN RDiv(given, Hundred) ELSE given

\* C22 (the claim as stated): the stream an upgrading node emits has volume
\* and methane both equal to the methane of its folded input times the
\* recovery, and whenever the recovery lies between 0 and 100 that methane
\* does not exceed the input methane and the reported methane loss is not
\* negative.
C22_UpgradingNeverGainsMethane ==
    \A n \in Range(processed) :
        TechOf(n).category = "upgrading" =>
            LET methane == Folded(input_streams[n]).methane_content
                biomethane == RMul(methane, RecoveryOf(n))
            IN  /\ output_stream[n].volume_flow = biomethane
                /\ output_stream[n].methane_content = biomethane
                /\ (~RLt(RecoveryOf(n), Zero) /\ ~RGt(RecoveryOf(n), One))
                    => /\ ~RGt(output_stream[n].methane_content, methane)
                       /\ ~RLt(node_results[n]["methane_loss_nm3_day"], Zero)


SummedFields ==
    {"biogas_nm3_day", "methane_nm3_day", "biomethane_nm3_day",
     "electricity_kwh_day", "thermal_kwh_day", "annual_revenue_brl"}

\* The sum of one field over the records of the first i processed nodes, a
\* record without the field counting as zero.
RECURSIVE TotalUpTo(_, _)
TotalUpTo(key, i) ==
    IF i = 0 THEN Zero
    ELSE RAdd(TotalUpTo(key, i - 1), Get(node_results[processed[i]], key, Zero))

TotalOf(key) == TotalUpTo(key, Len(processed))

\* C23 (amended): in a returned result each of the six summary totals is the
\* sum of that field over all node records, a record without the field
\* counting as zero, rounded to the nearest whole number with ties to even;
\* a graph with no nodes yields all-zero totals.
C23_TotalsAreRoundedSums ==
    Returned =>
        /\ \A key \in SummedFields :
               response.body.summary[key] = Round(TotalOf(key), 0)
        /\ nodes = <<>> =>
               \A key \in SummedFields : response.body.summary[key] = Zero

\* C23 (as stated): each summary total equals the sum itself.
C23_TotalsAreSums ==
    Returned =>
        /\ \A key \in SummedFields : response.body.summary[key] = TotalOf(key)
        /\ nodes = <<>> =>
               \A key \in SummedFields : response.body.summary[key] = Zero

\* A returned result where two records carry the same summed field and a
\* sum is not a whole number.
C23_Witness ==
    /\ Returned
    /\ \E key \in SummedFields : TotalOf(key) # Round(TotalOf(key), 0)
    /\ \E key \in SummedFields :
           \E m, n \in DOMAIN node_results :
               /\ m # n
               /\ key \in DOMAIN node_results[m] /\ key \in DOMAIN node_results[n]
               /\ RGt(node_results[m][key], Zero) /\ RGt(node_results[n][key], Zero)

\* A returned result for a request without nodes.
C23_WitnessEmpty == Returned /\ nodes = <<>>


-----------------------------------------------------------------------------
(* An engine constructed with another catalog.  The engine takes its      *)
(* catalog as the constructor argument; the catalog of the repository     *)
(* holds the six known categories only, so the last branch of             *)
(* _calculate_node is reached with a catalog that has one more entry.     *)

KnownCategories ==
    {"feedstock", "pretreatment", "digester", "upgrading", "enduse", "byproduct"}

StorageCatalog ==
    TECH_DATABASE
    @@ "gas_holder" :> [id |-> "gas_holder", category |-> "storage", name |-> "Gasometro",
          accepts |-> {"biogas"}, outputs |-> {"biogas"},
          parameters |-> <<>>,
          defaults |-> "capacity" :> R(500, 1)]

Holders ==
    {Node("h", "gas_holder", EmptyDict),
     Node("h", "gas_holder", P1("capacity", R(200, 1)))}

\* a holder after one node, after two nodes, and without any input, each
\* time feeding a consumer; and a holder between digester and upgrading
StorageRoutes ==
    {[nodes |-> <<f, h, Node("d", "cstr", EmptyDict)>>,
      edges |-> <<Edge("a", "h"), Edge("h", "d")>>] : f \in Feedstocks, h \in Holders}
    \cup
    {[nodes |-> <<f, Rename(g, "b"), h, Node("d", "cstr", EmptyDict)>>,
      edges |-> <<Edge("a", "h"), Edge("b", "h"), Edge("h", "d")>>] :
        f \in Feedstocks, g \in Feedstocks, h \in Holders}
    \cup
    {[nodes |-> <<h, e>>, edges |-> <<Edge("h", "e")>>] : h \in Holders, e \in Consumers}
    \cup
    {[nodes |-> <<f, d, h, e>>,
      edges |-> <<Edge("a", "d"), Edge("d", "h"), Edge("h", "e")>>] :
        f \in {n \in Feedstocks : n.tech_id = "vinasse"}, d \in Digesters,
        h \in Holders, e \in Consumers}

StorageInit ==
    /\ \E request \in StorageRoutes :
          /\ nodes = request.nodes
          /\ edges = request.edges
    /\ pc = "build"
    /\ graph = EmptyGraph
    /\ calc_order = <<>>
    /\ processed = <<>>
    /\ heap = <<>>
    /\ streams = EmptyDict
    /\ node_results = EmptyDict
    /\ input_streams = EmptyDict
    /\ output_stream = EmptyDict
    /\ response = NoResponse
    /\ history = <<>>
    /\ pending = <<>>

\* CalculationEngine(StorageCatalog)
ProcessNodeStorage == ProcessNodeWith(StorageCatalog)

StorageNext == BuildGraph \/ ProcessNodeStorage \/ Aggregate

StorageSpec == StorageInit /\ [][StorageNext]_vars

ProfileOf(node_id) == StorageCatalog[graph.attrs[node_id].tech_id]

\* C24: a node whose technology has a category outside the six known ones
\* passes its folded input through: its output stream equals the summed
\* input in every field, and its result record holds the tech id, name and
\* category annotations and nothing else.
C24_OtherCategoryPassesThrough ==
    \A n \in Range(processed) :
        ProfileOf(n).category \notin KnownCategories =>
            /\ output_stream[n] = Folded(input_streams[n])
            /\ \A k \in OutgoingKeys(n) : heap[streams[k]] = Folded(input_streams[n])
            /\ node_results[n] = [tech_id |-> ProfileOf(n).id,
                                  tech_name |-> ProfileOf(n).name,
                                  category |-> ProfileOf(n).category]

\* A holder that has passed on the sum of two streams that carry something.
C24_Witness ==
    \E n \in Range(processed) :
        /\ ProfileOf(n).category = "storage"
        /\ Len(input_streams[n]) = 2
        /\ \A i \in DOMAIN input_streams[n] : RGt(input_streams[n][i].vs_content, Zero)
        /\ output_stream[n] = Folded(input_streams[n])
        /\ OutgoingKeys(n) # {}


-----------------------------------------------------------------------------
(* Further properties of validate *)

\* C25 (the claim as stated): on a request that is structurally invalid (a
\* cyclic edge set, an edge naming an id absent from the node list, or a
\* node naming a technology absent from the catalog) validate answers with a
\* report that has valid false and at least one error entry.
C25_ValidateReportsStructuralErrors ==
    (pc = "done" /\ (CyclicRequest \/ ~WellFormed \/ ~TechsKnown)) =>
        /\ response.status = 200
        /\ response.body.valid = FALSE
        /\ response.body.errors # <<>>

\* The part of C25 that holds: a cyclic edge set is reported.
C25_ValidateReportsCycles ==
    (pc = "done" /\ CyclicRequest) =>
        /\ response.status = 200
        /\ response.body.valid = FALSE
        /\ response.body.errors # <<>>


-----------------------------------------------------------------------------
(* Further properties of the traversal and of the result *)

DistinctEdges == {<<edges[i].source, edges[i].target>> : i \in DOMAIN edges}

\* The keys of the result are those of the graph: a record for every node
\* with its catalog annotations, and no stream key but those of the edges.
KeysOfTheGraph ==
    /\ DOMAIN response.body.node_details = Range(graph.ids)
    /\ \A n \in Range(graph.ids) :
           /\ response.body.node_details[n]["tech_id"] = graph.attrs[n].tech_id
           /\ response.body.node_details[n]["tech_name"] = TechOf(n).name
           /\ response.body.node_details[n]["category"] = TechOf(n).category
    /\ DOMAIN response.body.streams = {EdgeKey(e[1], e[2]) : e \in DistinctEdges}

\* C26 (the claim as stated): in every returned result node_details holds
\* one record per node of the graph, keyed by node id and carrying that
\* node's tech id, name and category, and streams holds one entry per
\* distinct edge, keyed "source->target", and nothing else.
C26_OneRecordPerNodeOneStreamPerEdge ==
    Returned =>
        /\ KeysOfTheGraph
        /\ Cardinality(DOMAIN response.body.streams) = Cardinality(DistinctEdges)

\* The part of C26 that holds.
C26_ResultKeysAreThoseOfTheGraph == Returned => KeysOfTheGraph


\* The step that processes node n finds, in the stream map it starts from,
\* a stream under the key of every incoming edge of n.
InboundStreamsPresent ==
    \A n \in Range(graph.ids) :
        processed' = Append(processed, n)
            => \A p \in Range(Predecessors(graph, n)) : EdgeKey(p, n) \in DOMAIN streams

\* C27: whenever a node is processed the stream map already holds an entry
\* for each of its incoming edges, so the default stream that stands in for
\* a missing inbound stream is never used (nodes are processed on acyclic
\* graphs only).
C27_InboundStreamsAreRecordedFirst == [][InboundStreamsPresent]_vars

\* A processed node with two incoming edges, both recorded by other nodes.
C27_Witness ==
    \E n \in Range(processed) :
        /\ Cardinality(Range(Predecessors(graph, n))) = 2
        /\ n \notin Range(Predecessors(graph, n))
        /\ \A p \in Range(Predecessors(graph, n)) :
               p \in Range(processed) /\ EdgeKey(p, n) \in DOMAIN streams


StandardConditions(stream) ==
    stream.temperature = R(35, 1) /\ stream.pressure = One

\* C28: every stream of the stream map, at every point of the traversal and
\* in the returned result, has temperature 35 and pressure 1, the streams
\* that come out of a fold of several inputs included.
C28_StreamsStayAtStandardConditions ==
    /\ \A k \in DOMAIN streams : StandardConditions(heap[streams[k]])
    /\ \A n \in DOMAIN input_streams :
           Len(input_streams[n]) > 0 => StandardConditions(Folded(input_streams[n]))
    /\ Returned =>
           \A k \in DOMAIN response.body.streams :
               StandardConditions(response.body.streams[k])

\* A returned stream that a pretreatment node made from the fold of two
\* inputs.
C28_Witness ==
    /\ Returned
    /\ \E n \in Range(processed) :
          /\ TechOf(n).category = "pretreatment"
          /\ Len(input_streams[n]) = 2
          /\ \E k \in OutgoingKeys(n) :
                /\ RGt(response.body.streams[k].vs_content, Zero)
                /\ StandardConditions(response.body.streams[k])


\* The chains digester -> upgrading -> biomethane sale of the graph.
BiomethaneChains ==
    {c \in Range(graph.ids) \X Range(graph.ids) \X Range(graph.ids) :
        /\ c[1] \in Range(Predecessors(graph, c[2]))
        /\ c[2] \in Range(Predecessors(graph, c[3]))
        /\ TechOf(c[1]).category = "digester"
        /\ TechOf(c[2]).category = "upgrading"
        /\ TechOf(c[3]).category = "enduse"
        /\ TechOf(c[3]).id \in {"biomethane_gnv", "biomethane_grid"}}

\* C29 (the claim as stated): the summary counts each unit of biomethane
\* once: when the route is a chain digester -> upgrading -> biomethane sale
\* the summary biomethane total is the biomethane the upgrading node reports
\* (in whole units), and it does not exceed the summary methane total.
C29_BiomethaneCountedOnce ==
    (Returned /\ BiomethaneChains # {}) =>
        /\ \A c \in BiomethaneChains :
               response.body.summary.biomethane_nm3_day =
                   Round(node_results[c[2]]["biomethane_nm3_day"], 0)
        /\ ~RGt(response.body.summary.biomethane_nm3_day,
                response.body.summary.methane_nm3_day)


\* The ids that the compatibility check of validate looks up.
CheckedIds ==
    {edges[i].source : i \in DOMAIN edges} \cup {edges[i].target : i \in DOMAIN edges}

\* C30 (the claim as stated): when validate has checked the connections of
\* a route, the technology it looked up for each node id is the technology
\* of that node in the built graph, which is the one calculate uses, also
\* when the node list names an id more than once.
C30_ValidateAndCalculateAgreeOnTechnology ==
    (pc = "done" /\ response.status = 200 /\ ~CyclicRequest) =>
        \A id \in CheckedIds :
            NodeOf(nodes, id).tech_id = graph.attrs[id].tech_id
====
